---------------------------- MODULE Spec2Model ----------------------------
(***************************************************************************)
(* A model of the compensation calculation core of tc-calc:                *)
(*   CurrencyConverter   (unnamed/part_000, lines 522-755)                 *)
(*   TaxCalculator       (unnamed/part_000, lines 310-521)                 *)
(*   CompensationCalculator (unnamed/part_000, lines 756-1112)             *)
(*   EquityValuator      (src/utils/equity-valuator.ts)                    *)
(*   BenefitsCalculator  (unnamed/part_000, lines 1-309)                   *)
(*                                                                         *)
(* Numbers.  TLC has integers only, so every quantity is a fixed-point     *)
(* integer:                                                                *)
(*   - an exchange rate is an integer number of 1/RateScale (3.7 is 37);   *)
(*   - a percentage rate is an integer number of 1/RateDen (0.025 is 5);   *)
(*   - time is in milliseconds, as Date.now() is.                          *)
(* The unit of every money value is stated where it is computed.           *)
(***************************************************************************)
EXTENDS Integers, Sequences, FiniteSets, TLC

(***************************************************************************)
(* Bounds of the model                                                     *)
(***************************************************************************)
\* the clock advances at most MaxTicks times
MaxTicks == 3

\* the valuations are applied to lists of at most MaxGrants grants
MaxGrants == 2

\* callers of the currency service that run concurrently (async call chains)
Procs == {1, 2}

\* the callers that invoke calculateTotalCompensation
Calculators == {1}

(***************************************************************************)
(* Program constants                                                       *)
(***************************************************************************)
\* rates are integers in units of 1/RateScale
RateScale == 10

\* CurrencyConverter.CACHE_DURATION, one hour in milliseconds
CACHE_DURATION == 60 * 60 * 1000

\* FALLBACK_EXCHANGE_RATE.usdToIls = 3.7
FALLBACK_USD_TO_ILS == 37

\* FALLBACK_EXCHANGE_RATE.lastUpdated = new Date('2024-01-01'), a fixed
\* instant before the program starts: instant 0 of the model's clock
FALLBACK_LAST_UPDATED == 0

\* the clock moves in steps of half the cache duration, so that an instant
\* strictly inside the TTL window and the instant of expiry itself both occur
TickMs == CACHE_DURATION \div 2

\* Date.now() when the program starts
StartTime == TickMs

\* rates the remote sources may report (3.6 and 3.8)
Rates == {36, 38}

\* what one fetch from a remote source can come to: a usable payload, or one
\* of the failures that fetchFromPrimaryAPI / fetchFromBankOfIsrael throw on
FailureOutcomes == {"network_error", "non_2xx", "malformed"}

Outcomes == FailureOutcomes \cup {"ok"}

\* money is an integer number of 1/MoneyScale of a currency unit: a quarter
\* shekel (the tax-point credit is 551.25) times the rate denominator
MoneyScale == 800

Money(x) == x * MoneyScale

\* the amounts convertCurrency is called with
Amounts == {Money(0), Money(100)}

Currencies == {"USD", "ILS", "EUR"}

\* the dates getHistoricalRate is called with: an instant, or InvalidDate
\* (a Date whose time value is NaN)
InvalidDate == -1

HistoricalDates == {0, InvalidDate}


(***************************************************************************)
(* Constants of constants/israeli-tax (part_001)                           *)
(***************************************************************************)
\* a rate is an integer number of 1/RateDen: Rate(100) is 0.10, Rate(25)
\* is 0.025 (the argument is the rate in thousandths, a multiple of 5)
RateDen == 200

Rate(thousandths) == (thousandths * RateDen) \div 1000

\* x * rate, for an amount x of money and a rate in 1/RateDen; exact when x
\* is a whole number of quarter shekels, as every salary of the model is
Times(x, rate) == (x \div RateDen) * rate

\* bracket.max of the top bracket
Infinity == 2147483647

\* ISRAELI_TAX_BRACKETS_2024.brackets
ISRAELI_TAX_BRACKETS_2024 ==
    << [min |-> Money(0),     max |-> Money(7010),  rate |-> Rate(100)],
       [min |-> Money(7010),  max |-> Money(10060), rate |-> Rate(140)],
       [min |-> Money(10060), max |-> Money(16150), rate |-> Rate(200)],
       [min |-> Money(16150), max |-> Money(21240), rate |-> Rate(310)],
       [min |-> Money(21240), max |-> Money(42480), rate |-> Rate(350)],
       [min |-> Money(42480), max |-> Money(54130), rate |-> Rate(470)],
       [min |-> Money(54130), max |-> Infinity,     rate |-> Rate(500)] >>

\* BITUACH_LEUMI_2024
BITUACH_LEUMI_2024 == [rate |-> Rate(40), monthlyCeiling |-> Money(47220)]

\* PENSION_RATES_2024
PENSION_RATES_2024 ==
    [employee |-> Rate(60), employer |-> Rate(60),
     maxMonthlySalaryForPension |-> Money(42480)]

\* STUDY_FUND_RATES_2024
STUDY_FUND_RATES_2024 ==
    [employee |-> Rate(25), employer |-> Rate(75),
     maxMonthlySalaryForStudyFund |-> Money(33500)]

\* CAPITAL_GAINS_TAX_2024
CAPITAL_GAINS_TAX_2024 ==
    [rate |-> Rate(250), exemptionThreshold |-> Money(680000)]

\* TAX_POINTS_2024; tax points are counted in quarters (2.25 points is 9)
TaxPointDen == 4

TAX_POINTS_2024 ==
    [singlePersonTaxPoints |-> 9, marriedPersonTaxPoints |-> 14,
     taxPointValue |-> Money(245)]

\* the monthly salaries the tax functions are applied to, in shekels: each
\* bracket boundary and contribution ceiling with its neighbours, and
\* salaries inside every bracket
SalarySamples ==
    {0, 1, 3000, 7010, 7011, 8000, 10060, 10061, 13000, 16150, 16151,
     20000, 21240, 21241, 25000, 33500, 33501, 42480, 42481, 47220, 47221,
     54130, 54131, 100000}

\* in money units, with two salaries that are not whole shekels
Salaries ==
    {Money(x) : x \in SalarySamples}
      \cup {Money(551) + MoneyScale \div 4, Money(7010) + MoneyScale \div 2}

\* the salaries that are zero or negative, in money units
NonPositiveSalaries == {Money(0), Money(0 - 1), Money(0 - 1000),
                        Money(0 - 50000)}

\* the tax-point counts the tax functions are applied to (0, 2.25, 3.5)
TaxPointCounts == {0, 9, 14}

(***************************************************************************)
(* TaxCalculator                                                           *)
(***************************************************************************)
Max(a, b) == IF a >= b THEN a ELSE b

Min(a, b) == IF a <= b THEN a ELSE b

\* taxPoints * TAX_POINTS_2024.taxPointValue
taxPointCredit(taxPoints) ==
    (taxPoints * TAX_POINTS_2024.taxPointValue) \div TaxPointDen

\* a variant of taxableInThisBracket that caps by the bracket's upper bound
\* instead of its width
taxableUpToBracketMax(remainingIncome, bracket) ==
    Min(remainingIncome,
        IF bracket.max = Infinity THEN remainingIncome ELSE bracket.max)

\* Math.min(remainingIncome, bracket.max === Infinity ? remainingIncome
\*                                                   : bracket.max - bracket.min)
taxableInThisBracket(remainingIncome, bracket) ==
    Min(remainingIncome,
        IF bracket.max = Infinity THEN remainingIncome
        ELSE bracket.max - bracket.min)

\* the loop of calculateIncomeTax from bracket i on
RECURSIVE BracketLoop(_, _, _)
BracketLoop(i, remainingIncome, totalTax) ==
    IF i > Len(ISRAELI_TAX_BRACKETS_2024) \/ remainingIncome <= 0
    THEN totalTax
    ELSE LET bracket == ISRAELI_TAX_BRACKETS_2024[i]
             taxable == taxableInThisBracket(remainingIncome, bracket)
         IN  BracketLoop(i + 1, remainingIncome - taxable,
                         totalTax + Times(taxable, bracket.rate))

\* calculateIncomeTax(monthlySalary, taxPoints)
calculateIncomeTax(monthlySalary, taxPoints) ==
    LET taxableIncome == Max(0, monthlySalary - taxPointCredit(taxPoints))
    IN  Max(0, BracketLoop(1, taxableIncome, 0))

\* calculateBituachLeumi(monthlySalary)
calculateBituachLeumi(monthlySalary) ==
    Times(Min(monthlySalary, BITUACH_LEUMI_2024.monthlyCeiling),
          BITUACH_LEUMI_2024.rate)

\* calculatePensionContributions(monthlySalary)
calculatePensionContributions(monthlySalary) ==
    LET applicableSalary ==
          Min(monthlySalary, PENSION_RATES_2024.maxMonthlySalaryForPension)
        employee == Times(applicableSalary, PENSION_RATES_2024.employee)
        employer == Times(applicableSalary, PENSION_RATES_2024.employer)
    IN  [employee |-> employee, employer |-> employer,
         total |-> employee + employer]

\* calculateStudyFundContributions(monthlySalary)
calculateStudyFundContributions(monthlySalary) ==
    LET applicableSalary ==
          Min(monthlySalary,
              STUDY_FUND_RATES_2024.maxMonthlySalaryForStudyFund)
        employee == Times(applicableSalary, STUDY_FUND_RATES_2024.employee)
        employer == Times(applicableSalary, STUDY_FUND_RATES_2024.employer)
    IN  [employee |-> employee, employer |-> employer,
         total |-> employee + employer]

\* calculateCapitalGains(equityGains)
calculateCapitalGains(equityGains) ==
    IF equityGains <= 0 THEN 0
    ELSE Times(Max(0, equityGains
                        - CAPITAL_GAINS_TAX_2024.exemptionThreshold),
               CAPITAL_GAINS_TAX_2024.rate)

\* a variant of getNetSalary that deducts the whole pension and study-fund
\* contributions, the employer's share included
getNetSalaryTotalContributions(grossMonthlySalary, taxPoints) ==
    LET incomeTax == calculateIncomeTax(grossMonthlySalary, taxPoints)
        bituachLeumi == calculateBituachLeumi(grossMonthlySalary)
        pension == calculatePensionContributions(grossMonthlySalary)
        studyFund == calculateStudyFundContributions(grossMonthlySalary)
        totalDeductions ==
          incomeTax + bituachLeumi + pension.total + studyFund.total
        netSalary == grossMonthlySalary - totalDeductions
    IN  [grossSalary |-> grossMonthlySalary,
         netSalary |-> Max(0, netSalary),
         totalDeductions |-> totalDeductions]

\* getNetSalary(grossMonthlySalary, taxPoints)
getNetSalary(grossMonthlySalary, taxPoints) ==
    LET incomeTax == calculateIncomeTax(grossMonthlySalary, taxPoints)
        bituachLeumi == calculateBituachLeumi(grossMonthlySalary)
        pension == calculatePensionContributions(grossMonthlySalary)
        studyFund == calculateStudyFundContributions(grossMonthlySalary)
        totalDeductions ==
          incomeTax + bituachLeumi + pension.employee + studyFund.employee
        netSalary == grossMonthlySalary - totalDeductions
    IN  [grossSalary |-> grossMonthlySalary,
         netSalary |-> Max(0, netSalary),
         totalDeductions |-> totalDeductions]

\* getMarginalTaxRate(monthlySalary, taxPoints), in 1/RateDen
RECURSIVE MarginalLoop(_, _, _)
MarginalLoop(i, monthlySalary, taxableIncome) ==
    IF i > Len(ISRAELI_TAX_BRACKETS_2024)
    THEN ISRAELI_TAX_BRACKETS_2024[Len(ISRAELI_TAX_BRACKETS_2024)].rate
           + BITUACH_LEUMI_2024.rate + PENSION_RATES_2024.employee
           + STUDY_FUND_RATES_2024.employee
    ELSE LET bracket == ISRAELI_TAX_BRACKETS_2024[i]
         IN  IF taxableIncome >= bracket.min /\ taxableIncome < bracket.max
             THEN LET bituachLeumiRate ==
                        IF monthlySalary < BITUACH_LEUMI_2024.monthlyCeiling
                        THEN BITUACH_LEUMI_2024.rate ELSE 0
                      pensionRate ==
                        IF monthlySalary
                             < PENSION_RATES_2024.maxMonthlySalaryForPension
                        THEN PENSION_RATES_2024.employee ELSE 0
                      studyFundRate ==
                        IF monthlySalary
                             < STUDY_FUND_RATES_2024.maxMonthlySalaryForStudyFund
                        THEN STUDY_FUND_RATES_2024.employee ELSE 0
                  IN  bracket.rate + bituachLeumiRate + pensionRate
                        + studyFundRate
             ELSE MarginalLoop(i + 1, monthlySalary, taxableIncome)

getMarginalTaxRate(monthlySalary, taxPoints) ==
    MarginalLoop(1, monthlySalary,
                 Max(0, monthlySalary - taxPointCredit(taxPoints)))

\* totalDeductions / grossMonthlySalary, in thousandths, rounded down
effectiveTaxRate(totalDeductions, grossMonthlySalary) ==
    IF grossMonthlySalary > 0
    THEN (totalDeductions * 10) \div (grossMonthlySalary \div 100)
    ELSE 0

\* getTaxBreakdown(grossMonthlySalary, taxPoints)
getTaxBreakdown(grossMonthlySalary, taxPoints) ==
    LET incomeTax == calculateIncomeTax(grossMonthlySalary, taxPoints)
        bituachLeumi == calculateBituachLeumi(grossMonthlySalary)
        pension == calculatePensionContributions(grossMonthlySalary)
        studyFund == calculateStudyFundContributions(grossMonthlySalary)
        totalDeductions ==
          incomeTax + bituachLeumi + pension.employee + studyFund.employee
        netSalary == grossMonthlySalary - totalDeductions
    IN  [incomeTax |-> incomeTax,
         bituachLeumi |-> bituachLeumi,
         pensionContributions |-> pension.employee,
         studyFundContributions |-> studyFund.employee,
         totalDeductions |-> totalDeductions,
         effectiveTaxRate |->
           effectiveTaxRate(totalDeductions, grossMonthlySalary),
         marginalTaxRate |-> getMarginalTaxRate(grossMonthlySalary, taxPoints),
         grossSalary |-> grossMonthlySalary,
         netSalary |-> Max(0, netSalary)]

\* getAnnualTaxBreakdown(monthlySalary, taxPoints)
getAnnualTaxBreakdown(monthlySalary, taxPoints) ==
    LET monthlyBreakdown == getTaxBreakdown(monthlySalary, taxPoints)
    IN  [incomeTax |-> monthlyBreakdown.incomeTax * 12,
         bituachLeumi |-> monthlyBreakdown.bituachLeumi * 12,
         pensionContributions |-> monthlyBreakdown.pensionContributions * 12,
         studyFundContributions |->
           monthlyBreakdown.studyFundContributions * 12,
         totalDeductions |-> monthlyBreakdown.totalDeductions * 12,
         effectiveTaxRate |-> monthlyBreakdown.effectiveTaxRate,
         marginalTaxRate |-> monthlyBreakdown.marginalTaxRate,
         grossSalary |-> monthlyBreakdown.grossSalary * 12,
         netSalary |-> monthlyBreakdown.netSalary * 12]

(***************************************************************************)
(* BenefitsCalculator                                                      *)
(***************************************************************************)
\* HEALTH_INSURANCE_2024: the employer's typical monthly contribution
HEALTH_INSURANCE_2024 ==
    [basic |-> [employerTypicalContribution |-> Money(150)],
     premium |-> [employerTypicalContribution |-> Money(300)]]

\* VACATION_VALUATION_2024
VACATION_VALUATION_2024 == [workingDaysPerYear |-> 250]

\* TECH_PERKS_BENCHMARKS_2024
TECH_PERKS_BENCHMARKS_2024 ==
    [laptop |-> [annualValue |-> Money(8000)],
     transportationAllowance |-> [typical |-> Money(300)]]

\* an optional number that was not given (undefined)
Undefined == -1

\* sickDays: 'unlimited'
Unlimited == -2

\* Object.values(components).reduce((sum, comp) => sum + comp.value, 0), and
\* every other sum over the values of a map
RECURSIVE SumValues(_)
SumValues(f) ==
    IF DOMAIN f = {} THEN 0
    ELSE LET k == CHOOSE x \in DOMAIN f : TRUE
         IN  f[k] + SumValues([x \in DOMAIN f \ {k} |-> f[x]])

\* calculatePensionValue(monthlySalary, employerRate): annual value
calculatePensionValue(monthlySalary, employerRate) ==
    LET applicableSalary ==
          Min(monthlySalary, PENSION_RATES_2024.maxMonthlySalaryForPension)
    IN  Times(applicableSalary, employerRate) * 12

\* calculateStudyFundValue(monthlySalary, employerRate): annual value
calculateStudyFundValue(monthlySalary, employerRate) ==
    LET applicableSalary ==
          Min(monthlySalary,
              STUDY_FUND_RATES_2024.maxMonthlySalaryForStudyFund)
    IN  Times(applicableSalary, employerRate) * 12

\* calculateHealthInsuranceValue(coverage, employerContribution)
calculateHealthInsuranceValue(coverage, employerContribution) ==
    IF coverage = "none" THEN 0
    ELSE IF employerContribution # Undefined THEN employerContribution * 12
    ELSE LET monthlyValue ==
               IF coverage = "premium"
               THEN HEALTH_INSURANCE_2024.premium.employerTypicalContribution
               ELSE HEALTH_INSURANCE_2024.basic.employerTypicalContribution
         IN  monthlyValue * 12

\* (monthlySalary * 12) / VACATION_VALUATION_2024.workingDaysPerYear
dailyRate(monthlySalary) ==
    (monthlySalary * 12) \div VACATION_VALUATION_2024.workingDaysPerYear

\* calculatePTOValue(monthlySalary, vacationDays)
calculatePTOValue(monthlySalary, vacationDays) ==
    dailyRate(monthlySalary) * vacationDays

\* calculateSickDaysValue(monthlySalary, sickDays)
calculateSickDaysValue(monthlySalary, sickDays) ==
    IF sickDays = Unlimited
    THEN (dailyRate(monthlySalary) * 10) \div 2
    ELSE IF sickDays > 7
    THEN (dailyRate(monthlySalary) * (sickDays - 7)) \div 2
    ELSE 0

\* calculateParentalLeaveValue(monthlySalary, extraDays)
calculateParentalLeaveValue(monthlySalary, extraDays) ==
    IF extraDays <= 0 THEN 0
    ELSE (dailyRate(monthlySalary) * extraDays * 3) \div 10

\* the keys calculatePerksValue can put in its breakdown
PerkNames ==
    {"laptop", "internetStipend", "phoneStipend", "gymMembership", "meals",
     "transportation", "learningBudget", "flexibleWork"}

\* calculatePerksValue(perks)
calculatePerksValue(perks) ==
    LET given ==
          {k \in PerkNames :
             CASE k = "laptop" -> perks.laptop.provided
               [] k = "internetStipend" -> perks.internetStipend > 0
               [] k = "phoneStipend" -> perks.phoneStipend > 0
               [] k = "gymMembership" -> perks.gymMembership > 0
               [] k = "meals" ->
                    perks.meals.type # "none" /\ perks.meals.value > 0
               [] k = "transportation" -> perks.transportation > 0
               [] k = "learningBudget" -> perks.learningBudget > 0
               [] k = "flexibleWork" -> perks.flexibleWork.remoteAllowed}
        typical == TECH_PERKS_BENCHMARKS_2024.transportationAllowance.typical
        breakdown ==
          [k \in given |->
             CASE k = "laptop" ->
                    IF perks.laptop.annualValue # 0
                    THEN perks.laptop.annualValue
                    ELSE TECH_PERKS_BENCHMARKS_2024.laptop.annualValue
               [] k = "internetStipend" -> perks.internetStipend * 12
               [] k = "phoneStipend" -> perks.phoneStipend * 12
               [] k = "gymMembership" -> perks.gymMembership * 12
               [] k = "meals" -> perks.meals.value * 12
               [] k = "transportation" -> perks.transportation * 12
               [] k = "learningBudget" -> perks.learningBudget
               [] k = "flexibleWork" ->
                    IF perks.flexibleWork.hybridDays # 0
                    THEN (perks.flexibleWork.hybridDays * typical * 12) \div 5
                    ELSE typical * 12]
    IN  [totalAnnualValue |-> SumValues(breakdown), breakdown |-> breakdown]

\* the keys calculateComprehensiveBenefits can put in its components
BenefitNames ==
    {"pensionFund", "studyFund", "healthInsurance", "vacationDays",
     "sickDays", "parentalLeave"}

\* calculateComprehensiveBenefits(monthlySalary, benefitsData); a
\* contribution percentage is given in tenths of a percent
calculateComprehensiveBenefits(monthlySalary, benefitsData) ==
    LET value ==
          [k \in BenefitNames |->
             CASE k = "pensionFund" ->
                    calculatePensionValue(monthlySalary,
                      Rate(benefitsData.pensionFund.employerContribution))
               [] k = "studyFund" ->
                    calculateStudyFundValue(monthlySalary,
                      Rate(benefitsData.studyFund.employerContribution))
               [] k = "healthInsurance" ->
                    calculateHealthInsuranceValue(
                      benefitsData.healthInsurance.coverage,
                      benefitsData.healthInsurance.employerContribution)
               [] k = "vacationDays" ->
                    calculatePTOValue(monthlySalary, benefitsData.vacationDays)
               [] k = "sickDays" ->
                    calculateSickDaysValue(monthlySalary,
                                           benefitsData.sickDays)
               [] k = "parentalLeave" ->
                    calculateParentalLeaveValue(monthlySalary,
                                                benefitsData.parentalLeave)]
        components ==
          [k \in {n \in BenefitNames :
                    n \in {"sickDays", "parentalLeave"} => value[n] > 0} |->
             value[k]]
        grossTotal == SumValues(components)
    IN  [gross |-> grossTotal, net |-> grossTotal, components |-> components]

(***************************************************************************)
(* The USD-to-ILS conversions of one calculateTotalCompensation invocation *)
(*                                                                         *)
(* Every conversion awaits its own getCurrentExchangeRate.  A site is one  *)
(* such await: the pass of the code it belongs to, the part or grant it    *)
(* converts, and the USD amount.  The sites of a package are listed in the *)
(* order the code reaches them; the i-th ExchangeRate of `rates` is the    *)
(* one the i-th site's lookup resolved to.                                 *)
(***************************************************************************)
Site(pass, part, grant, usd) ==
    [pass |-> pass, part |-> part, grant |-> grant, usd |-> usd]

\* a package without salaryData.bonus
NoBonus == [amount |-> 0, frequency |-> "none", guaranteed |-> FALSE]

\* baseSalary * 12 for a monthly salary
annualBase(salaryData) ==
    IF salaryData.frequency = "monthly"
    THEN salaryData.baseSalary * 12
    ELSE salaryData.baseSalary

\* bonus.amount * 4 for a quarterly bonus
annualBonus(salaryData) ==
    IF salaryData.bonus.frequency = "quarterly"
    THEN salaryData.bonus.amount * 4
    ELSE salaryData.bonus.amount

\* the conversions of one calculateAnnualSalaryILS(salaryData)
AnnualSalarySites(salaryData, pass) ==
    IF salaryData.currency # "USD" THEN <<>>
    ELSE <<Site(pass, "base", 0, annualBase(salaryData))>>
           \o (IF salaryData.bonus # NoBonus
               THEN <<Site(pass, "bonus", 0, annualBonus(salaryData))>>
               ELSE <<>>)

\* the distance between currentStockPrice and strikePrice
intrinsicValueAbsolute(grant) ==
    IF grant.currentStockPrice >= grant.strikePrice
    THEN grant.currentStockPrice - grant.strikePrice
    ELSE grant.strikePrice - grant.currentStockPrice

\* Math.max(0, currentStockPrice - strikePrice)
intrinsicValue(grant) == Max(0, grant.currentStockPrice - grant.strikePrice)

\* grant.strikePrice || currentStockPrice * 0.85
purchasePrice(grant) ==
    IF grant.strikePrice # 0 THEN grant.strikePrice
    ELSE (grant.currentStockPrice * 85) \div 100

\* the per-share USD figure a grant is valued at
perShare(grant) ==
    CASE grant.type = "RSU" -> grant.currentStockPrice
      [] grant.type \in {"ISO", "NQSO"} -> intrinsicValue(grant)
      [] grant.type = "ESPP" -> grant.currentStockPrice - purchasePrice(grant)

\* grant.amount times the per-share figure, in USD
grantValue(grant) == grant.amount * perShare(grant)

Filter(grants, types) == SelectSeq(grants, LAMBDA g : g.type \in types)

\* the conversions of one valueRSUs / valueStockOptions / valueESPP over
\* `grants`: one for each grant with a positive per-share figure
ValuationSites(grants, types, pass) ==
    LET converted ==
          SelectSeq(grants, LAMBDA g : g.type \in types /\ perShare(g) > 0)
    IN  [i \in 1..Len(converted) |->
           Site(pass, converted[i].type, converted[i].id,
                grantValue(converted[i]))]

\* the keys of grantsByType, in insertion order
RECURSIVE TypesInOrder(_, _)
TypesInOrder(grants, seen) ==
    IF grants = <<>> THEN <<>>
    ELSE IF Head(grants).type \in seen
    THEN TypesInOrder(Tail(grants), seen)
    ELSE <<Head(grants).type>>
           \o TypesInOrder(Tail(grants), seen \cup {Head(grants).type})

\* the conversions of the loop over Object.entries(grantsByType)
RECURSIVE ByTypeSites(_, _)
ByTypeSites(grants, types) ==
    IF types = <<>> THEN <<>>
    ELSE ValuationSites(grants, {Head(types)}, "calculateEquityBreakdown")
           \o ByTypeSites(grants, Tail(types))

\* the conversions of calculateEquityBreakdown(equityData)
EquitySites(equityData) ==
    IF equityData.grants = <<>> THEN <<>>
    ELSE ValuationSites(equityData.grants, {"RSU"}, "generateEquitySummary")
           \o ValuationSites(equityData.grants, {"ISO", "NQSO"},
                             "generateEquitySummary")
           \o ValuationSites(equityData.grants, {"ESPP"},
                             "generateEquitySummary")
           \o ByTypeSites(equityData.grants,
                          TypesInOrder(equityData.grants, {}))

\* every getCurrentExchangeRate of calculateTotalCompensation(packageData),
\* in order; the first is the one whose result is recorded
Sites(packageData) ==
    <<Site("calculateTotalCompensation", "exchangeRate", 0, 0)>>
      \o AnnualSalarySites(packageData.salary, "calculateTotalCompensation")
      \o AnnualSalarySites(packageData.salary, "calculateBaseSalaryBreakdown")
      \o (IF packageData.salary.bonus # NoBonus
             /\ packageData.salary.currency = "USD"
          THEN <<Site("calculateBaseSalaryBreakdown", "bonusComponent", 0,
                      annualBonus(packageData.salary))>>
          ELSE <<>>)
      \o EquitySites(packageData.equity)

\* convertUSDToILS: usdAmount * rate.rate
convertUSDToILS(usdAmount, rate) == (usdAmount * rate.rate) \div RateScale

\* convertILSToUSD: ilsAmount / rate.rate
convertILSToUSD(ilsAmount, rate) == (ilsAmount * RateScale) \div rate.rate

\* the ILS amount the conversion at the given site returned
Converted(sites, rates, pass, part, grant) ==
    LET i == CHOOSE j \in 1..Len(sites) :
                 /\ sites[j].pass = pass
                 /\ sites[j].part = part
                 /\ sites[j].grant = grant
    IN  convertUSDToILS(sites[i].usd, rates[i])

(***************************************************************************)
(* EquityValuator: vesting schedules and the risk discount                 *)
(*                                                                         *)
(* A Date is a calendar day [month, day]: month counts the months since    *)
(* year 0 (year * 12 + getMonth()) and day is getDate().  Share counts are *)
(* whole shares; the grants are chosen so that every tranche is whole.     *)
(***************************************************************************)
\* the number of days of the calendar month with the given index
daysInMonth(month) ==
    LET year == month \div 12
        leap == (year % 4 = 0 /\ year % 100 # 0) \/ year % 400 = 0
    IN  CASE month % 12 = 1 -> IF leap THEN 29 ELSE 28
          [] month % 12 \in {3, 5, 8, 10} -> 30
          [] OTHER -> 31

\* date.setMonth(date.getMonth() + months) on a copy of the date: a day the
\* target month does not have runs over into the month after it
setMonth(date, months) ==
    LET target == date.month + months
    IN  IF date.day <= daysInMonth(target)
        THEN [month |-> target, day |-> date.day]
        ELSE [month |-> target + 1, day |-> date.day - daysInMonth(target)]

\* date.getTime(), up to a change of unit that keeps the order of dates
getTime(date) == date.month * 32 + date.day

\* new Date(ms) for an instant of the clock `now`, which starts on
\* 1 January 2025 and stays within that month
toDate(ms) ==
    [month |-> 2025 * 12, day |-> 1 + ms \div (24 * 60 * 60 * 1000)]

\* a VestingEvent; estimatedValue is the shares times currentStockPrice
VestingEvent(date, sharesVested, cumulativeShares, currentStockPrice) ==
    [date |-> date, sharesVested |-> sharesVested,
     cumulativeShares |-> cumulativeShares,
     estimatedValue |-> sharesVested * currentStockPrice]

\* a grant without vestingSchedule
NoSchedule ==
    [type |-> "undefined", totalYears |-> 0, cliffMonths |-> 0,
     percentages |-> <<>>, hasPercentages |-> FALSE]

\* the 'standard' branch with every tranche quarterlyShares
standardVestingFlat(grant) ==
    LET vestingSchedule == grant.vestingSchedule
        quarterlyShares == grant.amount \div (vestingSchedule.totalYears * 4)
    IN  [q \in 1..(vestingSchedule.totalYears * 4) |->
           VestingEvent(setMonth(grant.vestingStart,
                                 vestingSchedule.cliffMonths + (q - 1) * 3),
                        quarterlyShares, q * quarterlyShares,
                        grant.currentStockPrice)]

\* the 'standard' branch of calculateVestingSchedule; q is quarter + 1
standardVesting(grant) ==
    LET vestingSchedule == grant.vestingSchedule
        cliffMonths == vestingSchedule.cliffMonths
        quarterlyShares == grant.amount \div (vestingSchedule.totalYears * 4)
    IN  [q \in 1..(vestingSchedule.totalYears * 4) |->
           LET sharesThisVesting ==
                 IF q - 1 = 0 /\ cliffMonths > 0
                 THEN (quarterlyShares * (cliffMonths + 3)) \div 3
                 ELSE quarterlyShares
           IN  VestingEvent(setMonth(grant.vestingStart,
                                     cliffMonths + (q - 1) * 3),
                            sharesThisVesting, q * quarterlyShares,
                            grant.currentStockPrice)]

\* the 'cliff' branch with the event at vestingStart
cliffVestingAtStart(grant) ==
    << VestingEvent(setMonth(grant.vestingStart, 0), grant.amount,
                    grant.amount, grant.currentStockPrice) >>

\* the 'cliff' branch of calculateVestingSchedule
cliffVesting(grant) ==
    << VestingEvent(setMonth(grant.vestingStart,
                             grant.vestingSchedule.cliffMonths),
                    grant.amount, grant.amount, grant.currentStockPrice) >>

\* amount * (percentage / 100)
sharesOfPercentage(amount, percentage) == (amount * percentage) \div 100

\* cumulativeShares after the first n percentages
RECURSIVE cumulativeShares(_, _, _)
cumulativeShares(amount, percentages, n) ==
    IF n = 0 THEN 0
    ELSE cumulativeShares(amount, percentages, n - 1)
           + sharesOfPercentage(amount, percentages[n])

\* the 'custom' branch with the events 3 months apart
customVestingQuarterly(grant) ==
    LET vestingSchedule == grant.vestingSchedule
    IN  [i \in 1..Len(vestingSchedule.percentages) |->
           VestingEvent(
             setMonth(grant.vestingStart,
                      vestingSchedule.cliffMonths + (i - 1) * 3),
             sharesOfPercentage(grant.amount, vestingSchedule.percentages[i]),
             cumulativeShares(grant.amount, vestingSchedule.percentages, i),
             grant.currentStockPrice)]

\* the 'custom' branch of calculateVestingSchedule; i is index + 1
customVesting(grant) ==
    LET vestingSchedule == grant.vestingSchedule
    IN  [i \in 1..Len(vestingSchedule.percentages) |->
           VestingEvent(
             setMonth(grant.vestingStart,
                      vestingSchedule.cliffMonths + (i - 1) * 12),
             sharesOfPercentage(grant.amount, vestingSchedule.percentages[i]),
             cumulativeShares(grant.amount, vestingSchedule.percentages, i),
             grant.currentStockPrice)]

\* calculateVestingSchedule(grant)
calculateVestingSchedule(grant) ==
    CASE grant.vestingSchedule = NoSchedule -> <<>>
      [] grant.vestingSchedule.type = "standard" -> standardVesting(grant)
      [] grant.vestingSchedule.type = "cliff" -> cliffVesting(grant)
      [] grant.vestingSchedule.type = "custom"
           /\ grant.vestingSchedule.hasPercentages -> customVesting(grant)
      [] OTHER -> <<>>

\* events.sort((a, b) => a.date.getTime() - b.date.getTime()): a stable
\* sort by date.  The event at index i moves to the index that counts the
\* events dated before it and the events of its date that do not come after
\* it; the events are evaluated once, as the element of a set.
sortByDate(events) ==
    LET rank(e, i) ==
          Cardinality({j \in 1..Len(e) :
                         \/ getTime(e[j].date) < getTime(e[i].date)
                         \/ getTime(e[j].date) = getTime(e[i].date) /\ j <= i})
        sorted(e) ==
          [r \in 1..Len(e) |-> e[CHOOSE i \in 1..Len(e) : rank(e, i) = r]]
    IN  CHOOSE result \in {sorted(e) : e \in {events}} : TRUE

\* the result of multiplying a number by a value that is not a number; the
\* values discounted are never negative
NaN == 0 - 999999

\* the property names every object inherits from Object.prototype
ObjectPrototypeKeys ==
    {"constructor", "toString", "valueOf", "hasOwnProperty", "__proto__"}

\* discountFactors, in 1/RateDen
discountFactors ==
    [startup |-> Rate(300), growth |-> Rate(600), public |-> Rate(1000)]
      @@ ("pre-ipo" :> Rate(800))

\* applyRiskDiscount(value, companyStage): discountFactors[companyStage] is
\* the factor of the table, an inherited property of the object, or
\* undefined, which || replaces by 0.5
applyRiskDiscount(value, companyStage) ==
    CASE companyStage \in DOMAIN discountFactors ->
           Times(value, discountFactors[companyStage])
      [] companyStage \in ObjectPrototypeKeys -> NaN
      [] OTHER -> Times(value, Rate(500))

(***************************************************************************)
(* EquityValuator: valuations                                              *)
(***************************************************************************)
\* grantValueILS of one grant in the given pass
grantValueILS(grant, sites, rates, pass) ==
    IF perShare(grant) > 0
    THEN Converted(sites, rates, pass, grant.type, grant.id)
    ELSE 0

\* what one grant adds to totalPostTaxValue
postTaxValue(grant, valueILS) ==
    CASE grant.type = "ISO" ->
           Max(0, valueILS - calculateCapitalGains(valueILS))
      [] grant.type = "RSU" ->
           Max(0, valueILS - (Times(valueILS, Rate(350))
                                + calculateCapitalGains(Max(0, 0))))
      [] OTHER -> Max(0, valueILS - Times(valueILS, Rate(350)))

\* the loop of valueRSUs / valueStockOptions / valueESPP over the grants of
\* the given types: totalCurrentValue and totalPostTaxValue
RECURSIVE Valuation(_, _, _, _, _)
Valuation(grants, types, sites, rates, pass) ==
    IF grants = <<>>
    THEN [currentValue |-> 0, postTaxValue |-> 0]
    ELSE LET rest == Valuation(Tail(grants), types, sites, rates, pass)
             grant == Head(grants)
             valueILS == grantValueILS(grant, sites, rates, pass)
         IN  IF grant.type \in types
             THEN [currentValue |-> valueILS + rest.currentValue,
                   postTaxValue |->
                     postTaxValue(grant, valueILS) + rest.postTaxValue]
             ELSE rest

\* the same loop: allVestingEvents, to which every grant of the given
\* types pushes the events of its calculateVestingSchedule
RECURSIVE allVestingEvents(_, _)
allVestingEvents(grants, types) ==
    IF grants = <<>> THEN <<>>
    ELSE IF Head(grants).type \in types
    THEN calculateVestingSchedule(Head(grants))
           \o allVestingEvents(Tail(grants), types)
    ELSE allVestingEvents(Tail(grants), types)

\* a grant without companyStage
NoStage == "undefined"

\* grants[0]?.companyStage || 'public'
stageOrPublic(grants) ==
    IF grants = <<>> \/ grants[1].companyStage = NoStage
    THEN "public"
    ELSE grants[1].companyStage

\* the EquityValuation valueRSUs and valueStockOptions return for the totals
\* and the events of their loop
EquityValuation(grants, totals, events) ==
    [currentValue |-> totals.currentValue,
     postTaxValue |-> totals.postTaxValue,
     riskAdjustedValue |->
       applyRiskDiscount(totals.currentValue, stageOrPublic(grants)),
     vestingSchedule |-> sortByDate(events)]

valueRSUs(grants, sites, rates, pass) ==
    EquityValuation(grants, Valuation(grants, {"RSU"}, sites, rates, pass),
                    allVestingEvents(grants, {"RSU"}))

valueStockOptions(grants, sites, rates, pass) ==
    EquityValuation(grants,
                    Valuation(grants, {"ISO", "NQSO"}, sites, rates, pass),
                    allVestingEvents(grants, {"ISO", "NQSO"}))

\* valueESPP with the risk discount and the vesting events of the other
\* valuations
valueESPPDiscounted(grants, sites, rates, pass) ==
    EquityValuation(grants, Valuation(grants, {"ESPP"}, sites, rates, pass),
                    allVestingEvents(grants, {"ESPP"}))

\* the EquityValuation of valueESPP
ESPPValuation(totals) ==
    [currentValue |-> totals.currentValue,
     postTaxValue |-> totals.postTaxValue,
     riskAdjustedValue |-> totals.currentValue,
     vestingSchedule |-> <<>>]

valueESPP(grants, sites, rates, pass) ==
    ESPPValuation(Valuation(grants, {"ESPP"}, sites, rates, pass))

\* nextVestingDate: null
NoDate == [month |-> 0 - 1, day |-> 0]

\* the events dated today or later
futureEventsFromToday(events, today) ==
    SelectSeq(events,
              LAMBDA event : getTime(event.date) >= getTime(today))

\* allVestingEvents.filter(event => event.date > new Date())
futureEvents(events, today) ==
    SelectSeq(events,
              LAMBDA event : getTime(event.date) > getTime(today))

\* what generateEquitySummary returns, given the three valuations
EquitySummary(rsuValuation, optionValuation, esppValuation, today) ==
    LET sortedEvents ==
          sortByDate(rsuValuation.vestingSchedule
                       \o optionValuation.vestingSchedule)
        nextVesting == futureEvents(sortedEvents, today)
    IN  [totalCurrentValue |->
           rsuValuation.currentValue + optionValuation.currentValue
             + esppValuation.currentValue,
         totalPostTaxValue |->
           rsuValuation.postTaxValue + optionValuation.postTaxValue
             + esppValuation.postTaxValue,
         riskAdjustedValue |->
           rsuValuation.riskAdjustedValue + optionValuation.riskAdjustedValue
             + esppValuation.riskAdjustedValue,
         nextVestingDate |->
           IF nextVesting = <<>> THEN NoDate ELSE nextVesting[1].date,
         nextVestingValue |->
           IF nextVesting = <<>> THEN 0 ELSE nextVesting[1].estimatedValue]

\* generateEquitySummary(grants); today is what new Date() returns
generateEquitySummary(grants, sites, rates, today) ==
    EquitySummary(
      valueRSUs(Filter(grants, {"RSU"}), sites, rates,
                "generateEquitySummary"),
      valueStockOptions(Filter(grants, {"ISO", "NQSO"}), sites, rates,
                        "generateEquitySummary"),
      valueESPP(Filter(grants, {"ESPP"}), sites, rates,
                "generateEquitySummary"),
      today)

\* the totalCurrentValue and totalPostTaxValue of generateEquitySummary(grants),
\* the two fields calculateEquityBreakdown reads: the sums over the totals of
\* the three valuations, which depend on no vesting event and on no date
summaryTotals(grants, sites, rates) ==
    LET pass == "generateEquitySummary"
        rsuTotals == Valuation(Filter(grants, {"RSU"}), {"RSU"}, sites, rates, pass)
        optionTotals ==
          Valuation(Filter(grants, {"ISO", "NQSO"}), {"ISO", "NQSO"}, sites,
                    rates, pass)
        esppTotals ==
          Valuation(Filter(grants, {"ESPP"}), {"ESPP"}, sites, rates, pass)
    IN  [totalCurrentValue |->
           rsuTotals.currentValue + optionTotals.currentValue
             + esppTotals.currentValue,
         totalPostTaxValue |->
           rsuTotals.postTaxValue + optionTotals.postTaxValue
             + esppTotals.postTaxValue]

(***************************************************************************)
(* CompensationCalculator                                                  *)
(***************************************************************************)
\* calculateAnnualSalaryILS(salaryData), called in the given pass
calculateAnnualSalaryILS(salaryData, sites, rates, pass) ==
    LET baseSalary ==
          IF salaryData.currency = "USD"
          THEN Converted(sites, rates, pass, "base", 0)
          ELSE annualBase(salaryData)
        bonusAmount ==
          IF salaryData.bonus = NoBonus THEN 0
          ELSE IF salaryData.currency = "USD"
          THEN Converted(sites, rates, pass, "bonus", 0)
          ELSE annualBonus(salaryData)
    IN  baseSalary + bonusAmount

\* calculateBaseSalaryBreakdown(salaryData)
calculateBaseSalaryBreakdown(salaryData, sites, rates) ==
    LET pass == "calculateBaseSalaryBreakdown"
        annualSalaryILS ==
          calculateAnnualSalaryILS(salaryData, sites, rates, pass)
        monthlySalaryILS == annualSalaryILS \div 12
        netSalaryResult ==
          getNetSalary(monthlySalaryILS, TAX_POINTS_2024.singlePersonTaxPoints)
        bonusValue ==
          IF salaryData.currency = "USD"
          THEN Converted(sites, rates, pass, "bonusComponent", 0)
          ELSE annualBonus(salaryData)
    IN  [gross |-> annualSalaryILS,
         net |-> netSalaryResult.netSalary * 12,
         components |->
           [k \in IF salaryData.bonus # NoBonus
                  THEN {"baseSalary", "bonus"} ELSE {"baseSalary"} |->
              IF k = "baseSalary" THEN annualSalaryILS ELSE bonusValue]]

\* type.toLowerCase()
toLowerCase(type) ==
    CASE type = "RSU" -> "rsu"
      [] type = "ISO" -> "iso"
      [] type = "NQSO" -> "nqso"
      [] type = "ESPP" -> "espp"

\* typeValue of the loop over Object.entries(grantsByType): the currentValue
\* of valueRSUs, valueStockOptions or valueESPP, which is the total of the
\* valuation's loop
typeValue(grants, type, sites, rates) ==
    LET pass == "calculateEquityBreakdown"
        ofType == Filter(grants, {type})
    IN  CASE type = "RSU" ->
               Valuation(ofType, {"RSU"}, sites, rates, pass).currentValue
          [] type \in {"ISO", "NQSO"} ->
               Valuation(ofType, {"ISO", "NQSO"}, sites, rates,
                         pass).currentValue
          [] type = "ESPP" ->
               Valuation(ofType, {"ESPP"}, sites, rates, pass).currentValue

\* calculateEquityBreakdown(equityData)
calculateEquityBreakdown(equityData, sites, rates) ==
    IF equityData.grants = <<>>
    THEN [gross |-> 0, net |-> 0, components |-> [k \in {} |-> 0]]
    ELSE LET grants == equityData.grants
             equitySummary == summaryTotals(grants, sites, rates)
             types == {grants[i].type : i \in 1..Len(grants)}
             valued ==
               {t \in types : typeValue(grants, t, sites, rates) > 0}
         IN  [gross |-> equitySummary.totalCurrentValue,
              net |-> equitySummary.totalPostTaxValue,
              components |->
                [k \in {toLowerCase(t) : t \in valued} |->
                   typeValue(grants,
                             CHOOSE t \in valued : toLowerCase(t) = k,
                             sites, rates)]]

\* calculatePerksBreakdown(perksData)
calculatePerksBreakdown(perksData) ==
    LET perksValue == calculatePerksValue(perksData)
    IN  [gross |-> perksValue.totalAnnualValue,
         net |-> perksValue.totalAnnualValue,
         components |->
           [k \in {n \in DOMAIN perksValue.breakdown :
                     perksValue.breakdown[n] > 0} |->
              perksValue.breakdown[k]]]

\* a variant of exchangeRatesOf that stamps the recorded exchange rate with
\* the instant of the calculation
exchangeRatesRestamped(exchangeRate, date) ==
    [usdToIls |-> [exchangeRate EXCEPT !.lastUpdated = date],
     timestamp |-> date]

\* exchangeRates: { usdToIls: exchangeRate, timestamp: new Date() }
exchangeRatesOf(exchangeRate, date) ==
    [usdToIls |-> exchangeRate, timestamp |-> date]

\* totalGrossCompensation: the sum of the four gross figures
totalGrossCompensation(baseSalary, benefits, equity, perks) ==
    baseSalary.gross + benefits.gross + equity.gross + perks.gross

\* a variant of totalNetCompensation that leaves the equity and the perks out
totalNetCompensationOfSalary(baseSalary, benefits, equity, perks) ==
    baseSalary.net + benefits.net

\* totalNetCompensation: the sum of the four net figures
totalNetCompensation(baseSalary, benefits, equity, perks) ==
    baseSalary.net + benefits.net + equity.net + perks.net

\* the CompensationCalculation calculateTotalCompensation(packageData)
\* returns at `date` when its lookups resolved to `rates`.  The method and
\* assumptions texts of the components are left out: the code derives
\* them from packageData alone.
CompensationCalculation(packageData, rates, date) ==
    LET sites == Sites(packageData)
        exchangeRate == rates[1]
        annualSalaryILS ==
          calculateAnnualSalaryILS(packageData.salary, sites, rates,
                                   "calculateTotalCompensation")
        monthlySalaryILS == annualSalaryILS \div 12
        baseSalaryBreakdown ==
          calculateBaseSalaryBreakdown(packageData.salary, sites, rates)
        benefitsBreakdown ==
          calculateComprehensiveBenefits(monthlySalaryILS,
                                         packageData.benefits)
        equityBreakdown ==
          calculateEquityBreakdown(packageData.equity, sites, rates)
        perksBreakdown == calculatePerksBreakdown(packageData.perks)
        taxBreakdown ==
          getAnnualTaxBreakdown(monthlySalaryILS,
                                TAX_POINTS_2024.singlePersonTaxPoints)
    IN  [totalAnnualCompensation |->
           totalGrossCompensation(baseSalaryBreakdown, benefitsBreakdown,
                                  equityBreakdown, perksBreakdown),
         breakdown |->
           [baseSalary |-> baseSalaryBreakdown,
            benefits |-> benefitsBreakdown,
            equity |-> equityBreakdown,
            perks |-> perksBreakdown],
         taxImplications |-> taxBreakdown,
         netCompensation |->
           totalNetCompensation(baseSalaryBreakdown, benefitsBreakdown,
                                equityBreakdown, perksBreakdown),
         exchangeRates |-> exchangeRatesOf(exchangeRate, date),
         calculatedAt |-> date]

\* !x for a number x that may be missing: undefined and 0 are falsy
falsy(x) == x = Undefined \/ x = 0

\* x < 0 for a number x that may be missing: undefined < 0 is false
negative(x) == x # Undefined /\ x < 0

\* the errors validateInputs pushes for one grant
grantErrors(grant) ==
    (IF grant.amount <= 0
     THEN <<"Equity grant amount must be greater than 0">> ELSE <<>>)
      \o (IF /\ grant.type \in {"ISO", "NQSO"}
             /\ (falsy(grant.strikePrice) \/ negative(grant.strikePrice))
          THEN <<"Strike price is required for stock options">> ELSE <<>>)
      \o (IF ~falsy(grant.currentStockPrice)
               /\ negative(grant.currentStockPrice)
          THEN <<"Current stock price must be positive">> ELSE <<>>)

\* the loop of validateInputs over packageData.equity.grants
RECURSIVE equityErrors(_)
equityErrors(grants) ==
    IF grants = <<>> THEN <<>>
    ELSE grantErrors(Head(grants)) \o equityErrors(Tail(grants))

\* validateInputs(packageData).  An employer contribution is in tenths of
\* a percent (65 is 6.5%), so 10% is 100 and 15% is 150; the salary bounds
\* are compared with baseSalary as entered, whatever its frequency.
validateInputs(packageData) ==
    LET salary == packageData.salary
        benefits == packageData.benefits
        errors ==
          (IF falsy(salary.baseSalary) \/ salary.baseSalary <= 0
           THEN <<"Base salary must be greater than 0">> ELSE <<>>)
            \o (IF salary.baseSalary > Money(200000)
                     /\ salary.currency = "ILS"
                THEN <<"Monthly salary seems unusually high. Please verify the amount.">>
                ELSE <<>>)
            \o (IF salary.baseSalary > Money(50000) /\ salary.currency = "USD"
                THEN <<"Monthly salary in USD seems unusually high. Please verify the amount.">>
                ELSE <<>>)
            \o (IF \/ benefits.pensionFund.employerContribution < 0
                   \/ benefits.pensionFund.employerContribution > 100
                THEN <<"Pension fund employer contribution should be between 0% and 10%">>
                ELSE <<>>)
            \o (IF \/ benefits.studyFund.employerContribution < 0
                   \/ benefits.studyFund.employerContribution > 150
                THEN <<"Study fund employer contribution should be between 0% and 15%">>
                ELSE <<>>)
            \o (IF benefits.vacationDays < 0 \/ benefits.vacationDays > 50
                THEN <<"Vacation days should be between 0 and 50">>
                ELSE <<>>)
            \o equityErrors(packageData.equity.grants)
    IN  [isValid |-> Len(errors) = 0, errors |-> errors]

(***************************************************************************)
(* The packages calculateTotalCompensation is applied to                   *)
(***************************************************************************)
TypicalBenefits ==
    [pensionFund |-> [employerContribution |-> 65],
     studyFund |-> [employerContribution |-> 75],
     healthInsurance |->
       [coverage |-> "basic", employerContribution |-> Undefined],
     vacationDays |-> 20, sickDays |-> 10, parentalLeave |-> 0]

GenerousBenefits ==
    [pensionFund |-> [employerContribution |-> 70],
     studyFund |-> [employerContribution |-> 75],
     healthInsurance |->
       [coverage |-> "premium", employerContribution |-> Money(350)],
     vacationDays |-> 25, sickDays |-> Unlimited, parentalLeave |-> 10]

NoPerks ==
    [laptop |-> [provided |-> FALSE, annualValue |-> 0],
     internetStipend |-> 0, phoneStipend |-> 0, gymMembership |-> 0,
     meals |-> [type |-> "none", value |-> 0],
     transportation |-> 0, learningBudget |-> 0,
     flexibleWork |-> [remoteAllowed |-> FALSE, hybridDays |-> 0]]

OfficePerks ==
    [NoPerks EXCEPT !.laptop = [provided |-> TRUE, annualValue |-> 0],
                    !.meals = [type |-> "allowance", value |-> Money(500)],
                    !.learningBudget = Money(5000),
                    !.flexibleWork = [remoteAllowed |-> TRUE,
                                      hybridDays |-> 2]]

\* a grant as createNewGrant makes it (vesting from today, over 4 years
\* with a 12-month cliff, 1 year and no cliff for an ESPP; a startup),
\* with its amount and prices entered
Grant(id, type, amount, currentStockPrice, strikePrice) ==
    [id |-> id, type |-> type, amount |-> amount,
     currentStockPrice |-> currentStockPrice, strikePrice |-> strikePrice,
     vestingStart |-> toDate(0),
     vestingSchedule |->
       [type |-> "standard",
        totalYears |-> IF type = "ESPP" THEN 1 ELSE 4,
        cliffMonths |-> IF type = "ESPP" THEN 0 ELSE 12,
        percentages |-> <<>>, hasPercentages |-> FALSE],
     companyStage |-> "startup"]

\* a monthly ILS salary with a quarterly bonus, no equity
PackageILS ==
    [salary |->
       [baseSalary |-> Money(25000), currency |-> "ILS",
        frequency |-> "monthly",
        bonus |-> [amount |-> Money(6000), frequency |-> "quarterly",
                   guaranteed |-> TRUE]],
     benefits |-> TypicalBenefits,
     equity |-> [grants |-> <<>>],
     perks |-> OfficePerks]

\* an annual USD salary with an annual bonus, no equity
PackageUSD ==
    [salary |->
       [baseSalary |-> Money(60000), currency |-> "USD",
        frequency |-> "annual",
        bonus |-> [amount |-> Money(12000), frequency |-> "annual",
                   guaranteed |-> FALSE]],
     benefits |-> GenerousBenefits,
     equity |-> [grants |-> <<>>],
     perks |-> NoPerks]

\* an annual ILS salary with RSUs, options under water and an ESPP
PackageEquity ==
    [salary |->
       [baseSalary |-> Money(240000), currency |-> "ILS",
        frequency |-> "annual", bonus |-> NoBonus],
     benefits |-> TypicalBenefits,
     equity |->
       [grants |-> << Grant(1, "RSU", 500, Money(40), 0),
                      Grant(2, "NQSO", 1000, Money(40), Money(50)),
                      Grant(3, "ESPP", 100, Money(40), 0) >>],
     perks |-> NoPerks]

\* packageData.perks of a package that has no perks property: undefined
UndefinedPerks == [undefined |-> TRUE]

\* a package stored without its perks
PackageWithoutPerks == [PackageILS EXCEPT !.perks = UndefinedPerks]

Packages == {PackageILS, PackageUSD, PackageEquity, PackageWithoutPerks}

VARIABLES
    now,          \* Date.now()
    cachedRate,   \* CurrencyConverter.cachedRate (NoRate models null)
    cacheExpiry,  \* CurrencyConverter.cacheExpiry
    lastWrite,    \* history: instant of the latest cacheRate not followed by
                  \* a clearCache, -1 when there is none
    op,           \* per caller: the operation it is running, with its arguments
    lk,           \* per caller: its getCurrentExchangeRate invocation in flight
    ret,          \* what the latest step delivered: the getCurrentExchangeRate
                  \* invocation it completed and the call it returned from
    taxLog,       \* the latest calls of TaxCalculator functions, newest
                  \* first, with their arguments and results
    calcLog,      \* the latest completed calculateTotalCompensation
                  \* invocations, newest first
    equityLog,    \* the latest call of an EquityValuator function or of
                  \* validateInputs, with its arguments and result
    ui            \* the state of CompensationProvider's reducer and of the
                  \* useCompensationCalculation hook mounted under it

\* the journals of the pure functions
pureVars == <<taxLog, equityLog>>

\* all journals
journals == <<taxLog, calcLog, equityLog>>

\* the state of the currency service and of its callers
serviceVars ==
    <<now, cachedRate, cacheExpiry, lastWrite, op, lk, ret, calcLog>>

vars ==
    <<now, cachedRate, cacheExpiry, lastWrite, op, lk, ret, taxLog, calcLog,
      equityLog, ui>>

(***************************************************************************)
(* ExchangeRate records                                                    *)
(***************************************************************************)
\* null
NoRate == [rate |-> 0, lastUpdated |-> 0, source |-> "null"]

\* the constant of getCurrentExchangeRate's last tier
FallbackRate ==
    [rate |-> FALLBACK_USD_TO_ILS, lastUpdated |-> FALLBACK_LAST_UPDATED,
     source |-> "fallback"]

\* what fetchFromPrimaryAPI returns for a usable payload with rates.ILS = r
\* (the payload's date is taken to be the instant of the fetch)
PrimaryRate(r) ==
    [rate |-> r, lastUpdated |-> now, source |-> "exchangerate-api.com"]

\* what fetchFromBankOfIsrael returns for a usable payload
BoiRate(r) ==
    [rate |-> r, lastUpdated |-> now, source |-> "boi.gov.il"]

\* "ok" or "failed": fetchFromPrimaryAPI / fetchFromBankOfIsrael throw on a
\* network error, on a non-2xx status and on a payload without the rate
Class(out) == IF out = "ok" THEN "ok" ELSE "failed"

(***************************************************************************)
(* CurrencyConverter.getCurrentExchangeRate                                *)
(***************************************************************************)
\* a variant of isCacheValid that still accepts the cache at the instant of
\* its expiry (<= for <)
isCacheValidAtExpiry == cachedRate # NoRate /\ now <= cacheExpiry

\* isCacheValid(), and the test at the top of getCurrentExchangeRate
isCacheValid == cachedRate # NoRate /\ now < cacheExpiry

\* getCachedRate()
getCachedRate == IF isCacheValid THEN cachedRate ELSE NoRate

\* history: a successful fetch wrote the cache less than CACHE_DURATION ago
\* and the cache was not cleared since
InTtlWindow == lastWrite >= 0 /\ now < lastWrite + CACHE_DURATION

\* a caller with no getCurrentExchangeRate invocation in flight
IdleLookup ==
    [pc |-> "idle", startedAt |-> 0, inWindow |-> FALSE, hit |-> FALSE,
     calls |-> <<>>, resps |-> <<>>, fetched |-> NoRate, tier |-> "none",
     result |-> NoRate]

\* a variant of BeginLookup without the cache test: every call fetches
BeginLookupUncached ==
    [IdleLookup EXCEPT !.pc = "primary", !.startedAt = now,
                       !.inWindow = InTtlWindow, !.calls = <<"primary">>]

\* getCurrentExchangeRate up to its first suspension: a valid cache is
\* returned at once, otherwise the fetch from the primary source is started
BeginLookup ==
    IF isCacheValid
    THEN [IdleLookup EXCEPT !.pc = "done", !.startedAt = now,
                            !.inWindow = InTtlWindow, !.hit = TRUE,
                            !.tier = "cache", !.result = cachedRate]
    ELSE [IdleLookup EXCEPT !.pc = "primary", !.startedAt = now,
                            !.inWindow = InTtlWindow,
                            !.calls = <<"primary">>]

\* a variant of cacheRate that forgets the cache duration
cacheRateNoTtl(rate) ==
    /\ cachedRate' = rate
    /\ cacheExpiry' = now
    /\ lastWrite' = now

\* cacheRate(rate)
cacheRate(rate) ==
    /\ cachedRate' = rate
    /\ cacheExpiry' = now + CACHE_DURATION
    /\ lastWrite' = now

\* getCurrentExchangeRate after fetchFromPrimaryAPI settled with `out`
AfterPrimary(l, out, r) ==
    IF out = "ok"
    THEN [l EXCEPT !.pc = "done", !.resps = Append(@, Class(out)),
                   !.fetched = PrimaryRate(r), !.tier = "primary",
                   !.result = PrimaryRate(r)]
    ELSE [l EXCEPT !.pc = "secondary", !.resps = Append(@, Class(out)),
                   !.calls = Append(@, "secondary")]

\* a variant of AfterBothFailed that returns this.cachedRate unchecked
AfterBothFailedUnchecked == [tier |-> "stale", result |-> cachedRate]

\* a variant of AfterBothFailed that skips the stale cache
AfterBothFailedNoStale == [tier |-> "constant", result |-> FallbackRate]

\* the innermost catch of getCurrentExchangeRate: both sources have failed
AfterBothFailed ==
    IF cachedRate # NoRate
    THEN [tier |-> "stale", result |-> cachedRate]
    ELSE [tier |-> "constant", result |-> FallbackRate]

\* getCurrentExchangeRate after fetchFromBankOfIsrael settled with `out`
AfterSecondary(l, out, r) ==
    IF out = "ok"
    THEN [l EXCEPT !.pc = "done", !.resps = Append(@, Class(out)),
                   !.fetched = BoiRate(r), !.tier = "secondary",
                   !.result = BoiRate(r)]
    ELSE [l EXCEPT !.pc = "done", !.resps = Append(@, Class(out)),
                   !.tier = AfterBothFailed.tier,
                   !.result = AfterBothFailed.result]

(***************************************************************************)
(* What a step delivers                                                    *)
(***************************************************************************)
Idle == [name |-> "none"]

\* the step completed no getCurrentExchangeRate and returned from no call
NoReturn ==
    [caller |-> 0, call |-> Idle, kind |-> "none", value |-> 0,
     rate |-> NoRate, message |-> "", lookup |-> IdleLookup,
     calculation |-> [packageData |-> "none"]]

\* the step completed caller p's getCurrentExchangeRate invocation l inside
\* a call that goes on
Looked(p, l) == [NoReturn EXCEPT !.caller = p, !.lookup = l]

\* caller p's call c returned the number v; l is the getCurrentExchangeRate
\* invocation the step completed (IdleLookup if none)
Returned(p, c, v, l) ==
    [NoReturn EXCEPT !.caller = p, !.call = c, !.kind = "value",
                     !.value = v, !.lookup = l]

\* caller p's call c returned the ExchangeRate r
ReturnedRate(p, c, r, l) ==
    [NoReturn EXCEPT !.caller = p, !.call = c, !.kind = "rate", !.rate = r,
                     !.lookup = l]

\* caller p's call c threw an Error
Thrown(p, c, msg) ==
    [NoReturn EXCEPT !.caller = p, !.call = c, !.kind = "error",
                     !.message = msg]

(***************************************************************************)
(* The calls of the currency service                                       *)
(***************************************************************************)
GetRateCall == [name |-> "getCurrentExchangeRate"]

ConvertCall(amount, from, to) ==
    [name |-> "convertCurrency", amount |-> amount, from |-> from, to |-> to]

HistoricalCall(date, pc) ==
    [name |-> "getHistoricalRate", date |-> date, pc |-> pc]

\* the source label getHistoricalRate puts on the current rate it falls back to
HistoricalUnavailable(rate) ==
    [rate EXCEPT !.source =
        CASE @ = "exchangerate-api.com" ->
               "exchangerate-api.com (current, historical unavailable)"
          [] @ = "boi.gov.il" ->
               "boi.gov.il (current, historical unavailable)"
          [] OTHER -> "fallback (current, historical unavailable)"]

\* a monthlySalary that is a bigint: its product with a number throws a
\* TypeError
ABigInt == 0 - 888888

QuickTotalCall(monthlySalary, currency, hasEquity, hasBenefits) ==
    [name |-> "calculateQuickTotal", monthlySalary |-> monthlySalary,
     currency |-> currency, hasEquity |-> hasEquity,
     hasBenefits |-> hasBenefits]

\* the try block of calculateQuickTotal from annualSalaryILS on
quickTotalOf(salaryILS, hasEquity, hasBenefits) ==
    LET annualSalaryILS == salaryILS * 12
        benefitsValue ==
          IF hasBenefits
          THEN calculatePensionValue(salaryILS, PENSION_RATES_2024.employer)
                 + calculateStudyFundValue(salaryILS,
                                           STUDY_FUND_RATES_2024.employer)
                 + calculateHealthInsuranceValue("basic", Undefined)
          ELSE 0
        equityValue == IF hasEquity THEN Times(annualSalaryILS, Rate(300))
                       ELSE 0
    IN  annualSalaryILS + benefitsValue + equityValue

\* a variant of calculateQuickTotal without the catch: the total of a
\* computation that threw is not a number
calculateQuickTotalUncaught(c, rate) ==
    IF c.monthlySalary = ABigInt THEN NaN
    ELSE quickTotalOf(IF c.currency = "USD"
                      THEN convertUSDToILS(c.monthlySalary, rate)
                      ELSE c.monthlySalary,
                      c.hasEquity, c.hasBenefits)

\* what calculateQuickTotal returns for the arguments of call c when the
\* conversion, if any, used `rate`: the catch returns 0
calculateQuickTotal(c, rate) ==
    IF c.monthlySalary = ABigInt THEN 0
    ELSE quickTotalOf(IF c.currency = "USD"
                      THEN convertUSDToILS(c.monthlySalary, rate)
                      ELSE c.monthlySalary,
                      c.hasEquity, c.hasBenefits)

\* what caller p's call c does with the ExchangeRate its awaited
\* getCurrentExchangeRate invocation l resolved to
Resume(p, c, l) ==
    CASE c.name = "getCurrentExchangeRate" ->
           ReturnedRate(p, c, l.result, l)
      [] c.name = "convertCurrency" ->
           IF c.from = "USD"
           THEN Returned(p, c, convertUSDToILS(c.amount, l.result), l)
           ELSE Returned(p, c, convertILSToUSD(c.amount, l.result), l)
      [] c.name = "getHistoricalRate" ->
           ReturnedRate(p, c, HistoricalUnavailable(l.result), l)
      [] c.name = "calculateQuickTotal" ->
           Returned(p, c, calculateQuickTotal(c, l.result), l)

\* caller p, idle, makes call c, which starts with getCurrentExchangeRate
StartWithLookup(p, c) ==
    IF isCacheValid
    THEN /\ ret' = Resume(p, c, BeginLookup)
         /\ op' = [op EXCEPT ![p] = Idle]
         /\ UNCHANGED lk
    ELSE /\ op' = [op EXCEPT ![p] = c]
         /\ lk' = [lk EXCEPT ![p] = BeginLookup]
         /\ ret' = NoReturn

(***************************************************************************)
(* CompensationCalculator.calculateTotalCompensation                       *)
(*                                                                         *)
(* The code between two awaits runs without suspension, and a              *)
(* getCurrentExchangeRate that finds the cache valid resolves without      *)
(* I/O: the invocation runs on, within one step, to its next lookup that   *)
(* has to fetch, or to its end.                                            *)
(***************************************************************************)
CalculateCall(packageData, rates) ==
    [name |-> "calculateTotalCompensation", packageData |-> packageData,
     rates |-> rates]

\* no cache: the invocation did not run against one valid cache throughout
NoCache == [rate |-> NoRate, expiry |-> 0]

\* the ExchangeRates of `rates`, then `served` for every later lookup
ServedFrom(packageData, rates, served) ==
    [i \in 1..Len(Sites(packageData)) |->
       IF i <= Len(rates) THEN rates[i] ELSE served]

\* the record of a completed invocation: the package, the result, the
\* conversions it performed with the rate each one used, and the cache
\* when every lookup of the invocation was served from that one valid cache
Completed(p, packageData, rates, frozen) ==
    [caller |-> p,
     packageData |-> packageData,
     result |-> CompensationCalculation(packageData, rates, now),
     conversions |->
       [i \in 1..(Len(rates) - 1) |->
          [site |-> Sites(packageData)[i + 1], rate |-> rates[i + 1]]],
     cache |-> IF frozen
               THEN [rate |-> cachedRate, expiry |-> cacheExpiry]
               ELSE NoCache]

\* the journal holds the invocations that ran against the cache as it is
\* now, every lookup of theirs served from it: the latest, and the one
\* before it when both were given the same package.  It is emptied when
\* the cache is written, cleared or expires.
Journal(entry) ==
    IF entry.cache = NoCache THEN calcLog
    ELSE IF calcLog # <<>> /\ calcLog[1].packageData = entry.packageData
    THEN <<entry, calcLog[1]>>
    ELSE <<entry>>

\* calculatePerksValue reads perksData.laptop: a TypeError when perksData is
\* undefined
Raises(packageData) == packageData.perks = UndefinedPerks

\* a variant of the catch that throws the error it caught
rethrowCause(error) == error

\* the catch of calculateTotalCompensation: the message of the Error it
\* throws for the error it caught
rethrow(error) ==
    "Failed to calculate compensation. Please check your inputs and try again."

\* caller p's invocation returns its CompensationCalculation, or throws
\* when calculatePerksBreakdown, which follows the last lookup, raised
Complete(p, packageData, rates, frozen, l) ==
    /\ op' = [op EXCEPT ![p] = Idle]
    /\ lk' = [lk EXCEPT ![p] = IdleLookup]
    /\ IF Raises(packageData)
       THEN /\ calcLog' = IF l.fetched # NoRate THEN <<>> ELSE calcLog
            /\ ret' = [Thrown(p, CalculateCall(packageData, <<>>),
                              rethrow("TypeError: Cannot read properties of undefined (reading 'laptop')"))
                         EXCEPT !.lookup = l]
       ELSE \E entry \in {Completed(p, packageData, rates, frozen)} :
                /\ calcLog' =
                     IF l.fetched # NoRate THEN <<>> ELSE Journal(entry)
                /\ ret' = [NoReturn EXCEPT
                             !.caller = p,
                             !.call = CalculateCall(packageData, <<>>),
                             !.kind = "calculation", !.lookup = l,
                             !.calculation = entry]

\* caller p's invocation goes on after its lookup l resolved: the cache
\* holds what l fetched, or is as it was
CalcContinue(p, l) ==
    LET packageData == op[p].packageData
        rates == Append(op[p].rates, l.result)
        served == IF l.fetched # NoRate THEN l.fetched ELSE getCachedRate
    IN  IF Len(rates) = Len(Sites(packageData)) \/ served # NoRate
        THEN Complete(p, packageData,
                      ServedFrom(packageData, rates, served), FALSE, l)
        ELSE /\ op' = [op EXCEPT ![p] = CalculateCall(packageData, rates)]
             /\ lk' = [lk EXCEPT ![p] = BeginLookup]
             /\ ret' = Looked(p, l)
             /\ calcLog' = IF l.fetched # NoRate THEN <<>> ELSE calcLog

\* calculateTotalCompensation(packageData) up to its first suspension
Calculate(p, packageData) ==
    IF isCacheValid
    THEN Complete(p, packageData,
                  ServedFrom(packageData, <<>>, cachedRate), TRUE,
                  BeginLookup)
    ELSE /\ op' = [op EXCEPT ![p] = CalculateCall(packageData, <<>>)]
         /\ lk' = [lk EXCEPT ![p] = BeginLookup]
         /\ ret' = NoReturn
         /\ UNCHANGED calcLog

\* a caller invokes calculateTotalCompensation(packageData)
CallCalculate(p) ==
    /\ op[p] = Idle
    /\ \E packageData \in Packages : Calculate(p, packageData)
    /\ UNCHANGED <<now, cachedRate, cacheExpiry, lastWrite>>
    /\ UNCHANGED <<pureVars, ui>>

\* the monthly salaries calculateQuickTotal is called with
QuickSalaries == {Money(10000), ABigInt}

\* a caller invokes calculateQuickTotal(monthlySalary, currency, hasEquity,
\* hasBenefits)
CallQuickTotal(p) ==
    /\ op[p] = Idle
    /\ \E monthlySalary \in QuickSalaries, currency \in {"ILS", "USD"},
          hasEquity \in BOOLEAN, hasBenefits \in BOOLEAN :
         LET c == QuickTotalCall(monthlySalary, currency, hasEquity,
                                 hasBenefits)
         IN  IF currency = "USD"
             THEN StartWithLookup(p, c)
             ELSE /\ ret' = Returned(p, c, calculateQuickTotal(c, NoRate),
                                     IdleLookup)
                  /\ UNCHANGED <<op, lk>>
    /\ UNCHANGED <<now, cachedRate, cacheExpiry, lastWrite>>
    /\ UNCHANGED <<journals, ui>>

\* caller p's getCurrentExchangeRate invocation went from lk[p] to l
Continue(p, l) ==
    IF l.pc # "done"
    THEN /\ lk' = [lk EXCEPT ![p] = l]
         /\ ret' = NoReturn
         /\ UNCHANGED <<op, calcLog>>
    ELSE IF op[p].name = "calculateTotalCompensation"
    THEN CalcContinue(p, l)
    ELSE /\ ret' = Resume(p, op[p], l)
         /\ op' = [op EXCEPT ![p] = Idle]
         /\ lk' = [lk EXCEPT ![p] = IdleLookup]
         /\ calcLog' = IF l.fetched # NoRate THEN <<>> ELSE calcLog

\* a caller invokes getCurrentExchangeRate()
CallGetRate(p) ==
    /\ op[p] = Idle
    /\ StartWithLookup(p, GetRateCall)
    /\ UNCHANGED <<now, cachedRate, cacheExpiry, lastWrite>>
    /\ UNCHANGED <<journals, ui>>

\* a caller invokes convertCurrency(amount, fromCurrency, toCurrency)
CallConvert(p) ==
    /\ op[p] = Idle
    /\ \E amount \in Amounts, from \in Currencies, to \in Currencies :
         IF from = to
         THEN /\ ret' = Returned(p, ConvertCall(amount, from, to), amount,
                                 IdleLookup)
              /\ UNCHANGED <<op, lk>>
         ELSE IF <<from, to>> \in {<<"USD", "ILS">>, <<"ILS", "USD">>}
         THEN StartWithLookup(p, ConvertCall(amount, from, to))
         ELSE /\ ret' = Thrown(p, ConvertCall(amount, from, to),
                               "Unsupported currency conversion")
              /\ UNCHANGED <<op, lk>>
    /\ UNCHANGED <<now, cachedRate, cacheExpiry, lastWrite>>
    /\ UNCHANGED <<journals, ui>>

\* a caller invokes getHistoricalRate(date): date.toISOString() throws a
\* RangeError for an invalid Date, before the try block is entered
CallHistorical(p) ==
    /\ op[p] = Idle
    /\ \E date \in HistoricalDates :
         IF date = InvalidDate
         THEN /\ ret' = Thrown(p, HistoricalCall(date, "start"),
                               "RangeError: Invalid time value")
              /\ UNCHANGED op
         ELSE /\ op' = [op EXCEPT ![p] = HistoricalCall(date, "fetch")]
              /\ ret' = NoReturn
    /\ UNCHANGED <<now, cachedRate, cacheExpiry, lastWrite, lk>>
    /\ UNCHANGED <<journals, ui>>

\* the historical endpoint answers: a usable payload is returned (and not
\* cached), any failure falls back to getCurrentExchangeRate
HistoricalResponds(p) ==
    /\ op[p].name = "getHistoricalRate"
    /\ op[p].pc = "fetch"
    /\ \E out \in Outcomes, r \in Rates :
         IF out = "ok"
         THEN /\ ret' = ReturnedRate(p, op[p],
                          [rate |-> r, lastUpdated |-> op[p].date,
                           source |-> "exchangerate-api.com (historical)"],
                          IdleLookup)
              /\ op' = [op EXCEPT ![p] = Idle]
              /\ UNCHANGED lk
         ELSE StartWithLookup(p, HistoricalCall(op[p].date, "current"))
    /\ UNCHANGED <<now, cachedRate, cacheExpiry, lastWrite>>
    /\ UNCHANGED <<journals, ui>>

\* the primary source answers caller p's fetch
PrimaryResponds(p) ==
    /\ lk[p].pc = "primary"
    /\ \E out \in Outcomes, r \in Rates :
         /\ IF out = "ok"
            THEN cacheRate(PrimaryRate(r))
            ELSE UNCHANGED <<cachedRate, cacheExpiry, lastWrite>>
         /\ Continue(p, AfterPrimary(lk[p], out, r))
    /\ UNCHANGED now
    /\ UNCHANGED <<pureVars, ui>>

\* the secondary source (Bank of Israel) answers caller p's fetch
SecondaryResponds(p) ==
    /\ lk[p].pc = "secondary"
    /\ \E out \in Outcomes, r \in Rates :
         /\ IF out = "ok"
            THEN cacheRate(BoiRate(r))
            ELSE UNCHANGED <<cachedRate, cacheExpiry, lastWrite>>
         /\ Continue(p, AfterSecondary(lk[p], out, r))
    /\ UNCHANGED now
    /\ UNCHANGED <<pureVars, ui>>

\* a variant of clearCache that leaves cacheExpiry as it is
clearCachedRateOnly ==
    /\ cachedRate' = NoRate
    /\ lastWrite' = -1
    /\ ret' = NoReturn
    /\ calcLog' = <<>>
    /\ UNCHANGED <<now, cacheExpiry, op, lk>>
    /\ UNCHANGED <<pureVars, ui>>

\* clearCache()
clearCache ==
    /\ cachedRate' = NoRate
    /\ cacheExpiry' = 0
    /\ lastWrite' = -1
    /\ ret' = NoReturn
    /\ calcLog' = <<>>
    /\ UNCHANGED <<now, op, lk>>
    /\ UNCHANGED <<pureVars, ui>>

\* time passes
Tick ==
    /\ now + TickMs <= StartTime + MaxTicks * TickMs
    /\ now' = now + TickMs
    /\ ret' = NoReturn
    /\ calcLog' = IF now + TickMs < cacheExpiry THEN calcLog ELSE <<>>
    /\ UNCHANGED <<cachedRate, cacheExpiry, lastWrite, op, lk>>
    /\ UNCHANGED <<pureVars, ui>>

(***************************************************************************)
(* CompensationProvider and useCompensationCalculation                     *)
(*                                                                         *)
(* ui is the reducer's state (currentPackage, calculation, loading, error) *)
(* and the state of one mounted useCompensationCalculation hook (the       *)
(* pending timeout of useDebounce, quickTotal), with the history of the    *)
(* hook's calculateQuickTotal invocations.  The packages edited here are   *)
(* in ILS: calculateQuickTotal then awaits no conversion and settles       *)
(* within the step that invoked it.  Caller 1 runs the provider's          *)
(* calculateCompensation.                                                  *)
(***************************************************************************)
\* the history counts up to this many invocations
MaxCounted == 3

\* createDefaultPackage()
DefaultPackage ==
    [salary |->
       [baseSalary |-> Money(25000), currency |-> "ILS",
        frequency |-> "monthly", bonus |-> NoBonus],
     benefits |->
       [pensionFund |-> [employerContribution |-> 60],
        studyFund |-> [employerContribution |-> 75],
        healthInsurance |->
          [coverage |-> "basic", employerContribution |-> Money(150)],
        vacationDays |-> 20, sickDays |-> Unlimited, parentalLeave |-> 0],
     equity |-> [grants |-> <<>>],
     perks |->
       [laptop |-> [provided |-> TRUE, annualValue |-> Money(8000)],
        internetStipend |-> Money(100), phoneStipend |-> Money(150),
        gymMembership |-> 0, meals |-> [type |-> "none", value |-> 0],
        transportation |-> 0, learningBudget |-> Money(5000),
        flexibleWork |-> [remoteAllowed |-> TRUE, hybridDays |-> 3]]]

\* the packages the user's edits lead to: the default package, a raise, a
\* base salary cleared to 0 with 60 vacation days, and a package loaded
\* without its perks
EditedPackages ==
    {DefaultPackage,
     [DefaultPackage EXCEPT !.salary.baseSalary = Money(30000)],
     [DefaultPackage EXCEPT !.salary.baseSalary = 0,
                            !.benefits.vacationDays = 60],
     [DefaultPackage EXCEPT !.perks = UndefinedPerks]}

\* state.calculation: null
Null == [null |-> TRUE]

\* state.error: { hasError: false }
NoError == [hasError |-> FALSE, message |-> ""]

\* errors.join(separator)
RECURSIVE join(_, _)
join(errors, separator) ==
    IF errors = <<>> THEN ""
    ELSE IF Len(errors) = 1 THEN errors[1]
    ELSE errors[1] \o separator \o join(Tail(errors), separator)

\* compensationReducer, case 'SET_PACKAGE'
SET_PACKAGE(state, payload) == [state EXCEPT !.currentPackage = payload]

\* compensationReducer, case 'SET_CALCULATION'; currentPackage.calculations,
\* which no function reads, is not kept: that currentPackage is a new
\* object is in Rerendered
SET_CALCULATION(state, payload) == [state EXCEPT !.calculation = payload]

\* compensationReducer, case 'SET_LOADING'
SET_LOADING(state, isLoading) == [state EXCEPT !.isLoading = isLoading]

\* a variant of 'SET_ERROR' that leaves loading as it is
SET_ERROR_ONLY(state, message) ==
    [state EXCEPT !.error = [hasError |-> TRUE, message |-> message]]

\* compensationReducer, case 'SET_ERROR'
SET_ERROR(state, message) ==
    [state EXCEPT !.error = [hasError |-> TRUE, message |-> message],
                  !.isLoading = FALSE]

\* compensationReducer, case 'CLEAR_ERROR'
CLEAR_ERROR(state) == [state EXCEPT !.error = NoError]

\* the hook's calculateQuickTotal: the quickTotal it sets for the package
hookQuickTotal(packageData) ==
    calculateQuickTotal(
      QuickTotalCall(packageData.salary.baseSalary,
                     packageData.salary.currency,
                     Len(packageData.equity.grants) > 0, TRUE),
      NoRate)

\* the hook runs calculateQuickTotal, invoked by `by`
QuickTotalRun(state, by) ==
    [state EXCEPT !.quickTotal = hookQuickTotal(state.currentPackage),
                  !.quickBy = by,
                  !.burstCalls = Min(@ + 1, MaxCounted)]

\* the render after state.currentPackage became a new object: the effect
\* of useDebounce clears its timeout and sets a new one, and
\* calculateQuickTotal, whose dependencies include state.currentPackage,
\* is a new callback, so that the auto-calculate effect runs and calls it.
\* A change made while no timeout is pending begins a burst.
Rerendered(state, by) ==
    QuickTotalRun([state EXCEPT !.timer = TRUE,
                                !.burstCalls = IF state.timer THEN @ ELSE 0],
                  by)

\* the state once the provider and the hook are mounted and the timeout
\* set at mount has fired: the effect has run calculateQuickTotal once
Mounted ==
    [currentPackage |-> DefaultPackage, calculation |-> Null,
     isLoading |-> FALSE, error |-> NoError, timer |-> FALSE,
     quickTotal |-> hookQuickTotal(DefaultPackage), quickBy |-> "mount",
     burstCalls |-> 0, last |-> "mount"]

\* calculateCompensation after its await settled with r: SET_CALCULATION
\* and SET_LOADING, or the catch's SET_ERROR
Settled(state, r) ==
    CASE r.kind = "calculation" ->
           Rerendered(SET_LOADING(SET_CALCULATION(state,
                                                  r.calculation.result),
                                  FALSE),
                      "calculation")
      [] r.kind = "error" -> SET_ERROR(state, r.message)
      [] OTHER -> state

\* the user edits the package: a dispatch of SET_PACKAGE or UPDATE_*
SetPackage ==
    /\ \E packageData \in EditedPackages \ {ui.currentPackage} :
         ui' = [Rerendered(SET_PACKAGE(ui, packageData), "edit")
                  EXCEPT !.last = "setPackage"]
    /\ ret' = NoReturn
    /\ UNCHANGED <<now, cachedRate, cacheExpiry, lastWrite, op, lk>>
    /\ UNCHANGED journals

\* the timeout of useDebounce fires 500 ms after the latest change of
\* currentPackage: debouncedPackage changes and the auto-calculate effect
\* runs
DebounceFires ==
    /\ ui.timer
    /\ ui' = [QuickTotalRun([ui EXCEPT !.timer = FALSE], "debounce")
                EXCEPT !.last = "debounce"]
    /\ ret' = NoReturn
    /\ UNCHANGED <<now, cachedRate, cacheExpiry, lastWrite, op, lk>>
    /\ UNCHANGED journals

\* calculateCompensation(), up to its first suspension
CalculateCompensation ==
    /\ op[1] = Idle
    /\ LET started ==
             [CLEAR_ERROR(SET_LOADING(ui, TRUE))
                EXCEPT !.last = "calculateCompensation"]
           validation == validateInputs(ui.currentPackage)
       IN  IF ~validation.isValid
           THEN /\ ui' = SET_ERROR(started, join(validation.errors, ", "))
                /\ ret' = NoReturn
                /\ UNCHANGED <<op, lk, calcLog>>
           ELSE /\ Calculate(1, ui.currentPackage)
                /\ ui' = Settled(started, ret')
    /\ UNCHANGED <<now, cachedRate, cacheExpiry, lastWrite>>
    /\ UNCHANGED pureVars

\* a fetch of calculateCompensation's calculateTotalCompensation settles
FetchSettles ==
    /\ lk[1].pc \in {"primary", "secondary"}
    /\ \E out \in Outcomes, r \in Rates :
         LET fetched == IF lk[1].pc = "primary" THEN PrimaryRate(r)
                        ELSE BoiRate(r)
             l == IF lk[1].pc = "primary" THEN AfterPrimary(lk[1], out, r)
                  ELSE AfterSecondary(lk[1], out, r)
         IN  /\ IF out = "ok"
                THEN cacheRate(fetched)
                ELSE UNCHANGED <<cachedRate, cacheExpiry, lastWrite>>
             /\ Continue(1, l)
    /\ ui' = [Settled(ui, ret') EXCEPT !.last = "settle"]
    /\ UNCHANGED now
    /\ UNCHANGED pureVars

Init ==
    /\ now = StartTime
    /\ cachedRate = NoRate
    /\ cacheExpiry = 0
    /\ lastWrite = -1
    /\ op = [p \in Procs |-> Idle]
    /\ lk = [p \in Procs |-> IdleLookup]
    /\ ret = NoReturn
    /\ taxLog = <<>>
    /\ calcLog = <<>>
    /\ equityLog = <<>>
    /\ ui = Mounted

Next ==
    \/ Tick
    \/ clearCache
    \/ \E p \in Procs : CallGetRate(p)
    \/ \E p \in Procs : CallConvert(p)
    \/ \E p \in Procs : CallHistorical(p)
    \/ \E p \in Procs : HistoricalResponds(p)
    \/ \E p \in Procs : PrimaryResponds(p)
    \/ \E p \in Procs : SecondaryResponds(p)

Spec == Init /\ [][Next]_vars

\* the calculator and the currency service behind it
NextCalc ==
    \/ Tick
    \/ clearCache
    \/ \E p \in Calculators : CallCalculate(p)
    \/ \E p \in Calculators : CallQuickTotal(p)
    \/ \E p \in Procs : PrimaryResponds(p)
    \/ \E p \in Procs : SecondaryResponds(p)

SpecCalc == Init /\ [][NextCalc]_vars

NextContext ==
    \/ Tick
    \/ SetPackage
    \/ DebounceFires
    \/ CalculateCompensation
    \/ FetchSettles

\* what FetchSettles does to lk: the getCurrentExchangeRate invocation of
\* caller 1 goes on to the secondary source, or is over and with it the
\* only lookup of a calculation on an ILS package without grants.  No
\* other step of NextContext changes lk while a fetch is in flight.
FetchSettled ==
    /\ lk[1].pc \in {"primary", "secondary"}
    /\ \E l \in {IdleLookup}
                \cup (IF lk[1].pc = "primary"
                      THEN {AfterPrimary(lk[1], out, 0) :
                              out \in FailureOutcomes}
                      ELSE {}) :
         lk' = [lk EXCEPT ![1] = l]

\* the provider with the hook mounted.  fetch() settles: a fetch in flight
\* does not stay in flight forever.
SpecContext == Init /\ [][NextContext]_vars /\ WF_lk(FetchSettled)

TypeOK ==
    /\ now \in Nat
    /\ cacheExpiry \in Nat

(***************************************************************************)
(* The callers of TaxCalculator                                            *)
(***************************************************************************)
\* a caller applies calculateIncomeTax; the journal keeps the call before
\* it when that one was a calculateIncomeTax with the same tax points
CallCalculateIncomeTax ==
    /\ \E S \in Salaries, tp \in TaxPointCounts :
         LET call == [fn |-> "calculateIncomeTax", monthlySalary |-> S,
                      taxPoints |-> tp, result |-> calculateIncomeTax(S, tp)]
         IN  taxLog' =
               IF /\ taxLog # <<>>
                  /\ taxLog[1].fn = "calculateIncomeTax"
                  /\ taxLog[1].taxPoints = tp
               THEN <<call, taxLog[1]>>
               ELSE <<call>>
    /\ UNCHANGED <<serviceVars, equityLog, ui>>

\* a caller applies getNetSalary
CallGetNetSalary ==
    /\ \E S \in Salaries, tp \in TaxPointCounts :
         taxLog' =
           << [fn |-> "getNetSalary", monthlySalary |-> S, taxPoints |-> tp,
               result |-> getNetSalary(S, tp),
               incomeTax |-> calculateIncomeTax(S, tp),
               bituachLeumi |-> calculateBituachLeumi(S),
               pension |-> calculatePensionContributions(S).employee,
               studyFund |-> calculateStudyFundContributions(S).employee] >>
    /\ UNCHANGED <<serviceVars, equityLog, ui>>

\* a caller applies getTaxBreakdown, to the sampled salaries and to
\* salaries that are zero or negative
CallGetTaxBreakdown ==
    /\ \E S \in Salaries \cup NonPositiveSalaries, tp \in TaxPointCounts :
         taxLog' =
           << [fn |-> "getTaxBreakdown", monthlySalary |-> S, taxPoints |-> tp,
               result |-> getTaxBreakdown(S, tp)] >>
    /\ UNCHANGED <<serviceVars, equityLog, ui>>

\* a caller applies getMarginalTaxRate
CallGetMarginalTaxRate ==
    /\ \E S \in Salaries, tp \in TaxPointCounts :
         taxLog' =
           << [fn |-> "getMarginalTaxRate", monthlySalary |-> S,
               taxPoints |-> tp, result |-> getMarginalTaxRate(S, tp)] >>
    /\ UNCHANGED <<serviceVars, equityLog, ui>>

InitTax ==
    /\ now = StartTime
    /\ cachedRate = NoRate
    /\ cacheExpiry = 0
    /\ lastWrite = -1
    /\ op = [p \in Procs |-> Idle]
    /\ lk = [p \in Procs |-> IdleLookup]
    /\ ret = NoReturn
    /\ taxLog = <<>>
    /\ calcLog = <<>>
    /\ equityLog = <<>>
    /\ ui = Mounted

NextTax ==
    \/ CallCalculateIncomeTax
    \/ CallGetNetSalary
    \/ CallGetTaxBreakdown
    \/ CallGetMarginalTaxRate

\* the tax functions applied to the sampled salaries
SpecTax == InitTax /\ [][NextTax]_vars

(***************************************************************************)
(* The callers of EquityValuator                                           *)
(***************************************************************************)
\* vestingSchedule objects
Schedule(type, totalYears, cliffMonths, percentages) ==
    [type |-> type, totalYears |-> totalYears, cliffMonths |-> cliffMonths,
     percentages |-> percentages, hasPercentages |-> TRUE]

\* an EquityGrant
EquityGrant(id, type, amount, price, strikePrice, start, schedule, stage) ==
    [id |-> id, type |-> type, amount |-> amount,
     currentStockPrice |-> price, strikePrice |-> strikePrice,
     vestingStart |-> start, vestingSchedule |-> schedule,
     companyStage |-> stage]

\* the grants calculateVestingSchedule is applied to: 240, 1200 or 4800
\* shares, vesting from 31 January 2024, 15 June 2025 or 30 November 2027,
\* with the choices of the vesting form (1 to 5 years, a cliff of 0 to 24
\* months) and custom percentage sequences, with a custom schedule without
\* percentages and without a schedule
VestingGrants ==
    LET TotalYears == 1..5
        CliffMonths == {0, 6, 12, 18, 24}
        PercentageSequences ==
          {<<>>, <<100>>, <<25, 25, 25, 25>>, <<50, 30>>, <<60, 60>>}
        CustomWithoutPercentages ==
          [type |-> "custom", totalYears |-> 4, cliffMonths |-> 12,
           percentages |-> <<>>, hasPercentages |-> FALSE]
        Schedules ==
          {Schedule("standard", Y, c, <<>>) :
             Y \in TotalYears, c \in CliffMonths}
            \cup {Schedule("cliff", 4, c, <<>>) : c \in CliffMonths}
            \cup {Schedule("custom", 4, c, p) :
                    c \in {0, 12}, p \in PercentageSequences}
            \cup {CustomWithoutPercentages, NoSchedule}
        VestingStarts ==
          {[month |-> 2024 * 12, day |-> 31],
           [month |-> 2025 * 12 + 5, day |-> 15],
           [month |-> 2027 * 12 + 10, day |-> 30]}
    IN  {EquityGrant(1, "RSU", a, Money(10), 0, d, s, "public") :
           a \in {240, 1200, 4800}, d \in VestingStarts, s \in Schedules}

\* the grants the valuations are applied to: RSUs with and without a stock
\* price, options in and out of the money, ESPP grants with and without an
\* explicit purchase price, and a grant whose amount is still the 0 of
\* createNewGrant
GrantPool ==
    LET jan24 == [month |-> 2024 * 12, day |-> 31]
        jun25 == [month |-> 2025 * 12 + 5, day |-> 15]
    IN  { EquityGrant(1, "RSU", 1200, Money(40), 0, jan24,
                      Schedule("standard", 4, 12, <<>>), "growth"),
          EquityGrant(2, "RSU", 4800, 0, 0, jun25,
                      Schedule("cliff", 4, 12, <<>>), NoStage),
          EquityGrant(3, "ISO", 1600, Money(40), Money(10), jun25,
                      Schedule("custom", 4, 0, <<50, 50>>), "startup"),
          EquityGrant(4, "NQSO", 1000, Money(40), Money(50), jan24,
                      Schedule("standard", 1, 0, <<>>), "pre-ipo"),
          EquityGrant(5, "NQSO", 1000, Money(40), Money(40), jan24,
                      Schedule("cliff", 4, 24, <<>>), "public"),
          EquityGrant(6, "ESPP", 100, Money(100), 0, jan24,
                      Schedule("standard", 1, 0, <<>>), "startup"),
          EquityGrant(7, "ESPP", 100, Money(40), Money(50), jan24,
                      Schedule("standard", 1, 0, <<>>), "growth"),
          EquityGrant(8, "ESPP", 200, Money(100), Money(90), jun25,
                      Schedule("standard", 1, 0, <<>>), NoStage),
          EquityGrant(9, "NQSO", 500, Money(40), Money(10), jun25,
                      Schedule("standard", 2, 6, <<>>), "growth"),
          EquityGrant(10, "RSU", 0, Money(40), 0, jun25,
                      Schedule("standard", 4, 12, <<>>), "startup") }

\* the lists of at most MaxGrants different grants of the pool
GrantLists ==
    {grants \in UNION {[1..n -> GrantPool] : n \in 0..MaxGrants} :
       \A i, j \in 1..Len(grants) : grants[i] = grants[j] => i = j}

\* what the getCurrentExchangeRate of the conversions may resolve to
ResolvedRates == {FallbackRate} \cup {PrimaryRate(r) : r \in Rates}

\* the instants new Date() may return: 1 January 2023, 31 January 2025,
\* 15 June 2025, 1 January 2035
Todays ==
    {[month |-> 2023 * 12, day |-> 1], [month |-> 2025 * 12, day |-> 31],
     [month |-> 2025 * 12 + 5, day |-> 15], [month |-> 2035 * 12, day |-> 1]}

\* a caller applies calculateVestingSchedule; each behaviour applies one
\* function of EquityValuator once: the functions keep no state, so a call
\* does not depend on the calls before it
CallCalculateVestingSchedule ==
    /\ equityLog = <<>>
    /\ \E grant \in VestingGrants :
         equityLog' =
           << [fn |-> "calculateVestingSchedule", grant |-> grant,
               result |-> calculateVestingSchedule(grant)] >>
    /\ UNCHANGED <<serviceVars, taxLog, ui>>

\* a caller applies applyRiskDiscount
CallApplyRiskDiscount ==
    /\ equityLog = <<>>
    /\ \E value \in {Money(x) : x \in {0, 1000, 250000}},
          companyStage \in {"startup", "growth", "pre-ipo", "public",
                            "series-a", "", "constructor"} :
         equityLog' =
           << [fn |-> "applyRiskDiscount", value |-> value,
               companyStage |-> companyStage,
               result |-> applyRiskDiscount(value, companyStage)] >>
    /\ UNCHANGED <<serviceVars, taxLog, ui>>

\* a caller applies valueRSUs; the journal entry of a valuation holds its
\* arguments, the conversions it awaited with what their lookups resolved
\* to, and its result
CallValueRSUs ==
    /\ equityLog = <<>>
    /\ \E grants \in GrantLists :
         LET sites == ValuationSites(grants, {"RSU"}, "valueRSUs")
         IN  \E rates \in [1..Len(sites) -> ResolvedRates] :
               equityLog' =
                 << [fn |-> "valueRSUs", grants |-> grants, sites |-> sites,
                     rates |-> rates,
                     result |->
                       valueRSUs(grants, sites, rates, "valueRSUs")] >>
    /\ UNCHANGED <<serviceVars, taxLog, ui>>

\* a caller applies valueStockOptions
CallValueStockOptions ==
    /\ equityLog = <<>>
    /\ \E grants \in GrantLists :
         LET sites ==
               ValuationSites(grants, {"ISO", "NQSO"}, "valueStockOptions")
         IN  \E rates \in [1..Len(sites) -> ResolvedRates] :
               equityLog' =
                 << [fn |-> "valueStockOptions", grants |-> grants,
                     sites |-> sites, rates |-> rates,
                     result |->
                       valueStockOptions(grants, sites, rates,
                                         "valueStockOptions")] >>
    /\ UNCHANGED <<serviceVars, taxLog, ui>>

\* a caller applies valueESPP
CallValueESPP ==
    /\ equityLog = <<>>
    /\ \E grants \in GrantLists :
         LET sites == ValuationSites(grants, {"ESPP"}, "valueESPP")
         IN  \E rates \in [1..Len(sites) -> ResolvedRates] :
               equityLog' =
                 << [fn |-> "valueESPP", grants |-> grants, sites |-> sites,
                     rates |-> rates,
                     result |->
                       valueESPP(grants, sites, rates, "valueESPP")] >>
    /\ UNCHANGED <<serviceVars, taxLog, ui>>

\* a caller applies generateEquitySummary
CallGenerateEquitySummary ==
    /\ equityLog = <<>>
    /\ \E grants \in GrantLists, today \in Todays :
         LET pass == "generateEquitySummary"
             sites == ValuationSites(grants, {"RSU"}, pass)
                        \o ValuationSites(grants, {"ISO", "NQSO"}, pass)
                        \o ValuationSites(grants, {"ESPP"}, pass)
         IN  \E rates \in [1..Len(sites) -> ResolvedRates] :
               equityLog' =
                 << [fn |-> "generateEquitySummary", grants |-> grants,
                     sites |-> sites, rates |-> rates, today |-> today,
                     result |->
                       generateEquitySummary(grants, sites, rates, today)] >>
    /\ UNCHANGED <<serviceVars, taxLog, ui>>

NextEquity ==
    \/ CallCalculateVestingSchedule
    \/ CallApplyRiskDiscount
    \/ CallValueRSUs
    \/ CallValueStockOptions
    \/ CallValueESPP
    \/ CallGenerateEquitySummary

\* the functions of EquityValuator applied to the sampled grants
SpecEquity == InitTax /\ [][NextEquity]_vars

(***************************************************************************)
(* The callers of validateInputs                                           *)
(***************************************************************************)
\* the packages validateInputs is applied to: a base salary that is 0,
\* usual or above one of the two bounds, in either currency; employer
\* contributions and vacation days inside and outside their ranges; at
\* most MaxGrants grants whose amount is positive, 0 or negative, whose
\* strike price is positive, 0, negative or missing and whose stock price
\* is positive, negative or missing
ValidatedPackages ==
    LET start == [month |-> 2025 * 12, day |-> 1]
        standard == Schedule("standard", 4, 12, <<>>)
        grant(id, type, amount, price, strikePrice) ==
          EquityGrant(id, type, amount, price, strikePrice, start, standard,
                      "startup")
        pool ==
          { grant(1, "RSU", 100, Money(40), Undefined),
            grant(2, "RSU", 0, Money(40), Undefined),
            grant(3, "RSU", 0 - 5, Money(40), Undefined),
            grant(4, "ISO", 100, Money(40), Money(10)),
            grant(5, "ISO", 100, Money(40), 0),
            grant(6, "NQSO", 100, Money(40), Undefined),
            grant(7, "NQSO", 100, Money(40), Money(0 - 5)),
            grant(8, "RSU", 100, Money(0 - 1), Undefined),
            grant(9, "RSU", 100, Undefined, Undefined),
            grant(10, "ESPP", 100, Money(40), 0) }
        lists ==
          {grants \in UNION {[1..n -> pool] : n \in 0..MaxGrants} :
             \A i, j \in 1..Len(grants) : grants[i] = grants[j] => i = j}
        benefits ==
          { TypicalBenefits,
            [TypicalBenefits EXCEPT !.pensionFund.employerContribution = 110],
            [TypicalBenefits EXCEPT !.vacationDays = 60] }
    IN  {[PackageILS EXCEPT !.salary.baseSalary = baseSalary,
                            !.salary.currency = currency,
                            !.benefits = b, !.equity.grants = grants] :
           baseSalary \in {0, Money(25000), Money(60000), Money(250000)},
           currency \in {"ILS", "USD"}, b \in benefits, grants \in lists}

\* a caller applies validateInputs, once in a behaviour: the function keeps
\* no state
CallValidateInputs ==
    /\ equityLog = <<>>
    /\ \E packageData \in ValidatedPackages :
         equityLog' =
           << [fn |-> "validateInputs", packageData |-> packageData,
               result |-> validateInputs(packageData)] >>
    /\ UNCHANGED <<serviceVars, taxLog, ui>>

NextValidate == CallValidateInputs

\* validateInputs applied to the sampled packages
SpecValidate == InitTax /\ [][NextValidate]_vars

(***************************************************************************)
(* Claims about CurrencyConverter                                          *)
(***************************************************************************)
\* the getCurrentExchangeRate invocations in sight: those in flight and the
\* one the latest step completed
Lookups == {lk[p] : p \in Procs} \cup {ret.lookup}

BothFailed(l) == l.pc = "done" /\ l.resps = <<"failed", "failed">>

\* C1: getCurrentExchangeRate never raises an error: whatever the cache
\* holds and however the two sources answer, the call returns an
\* ExchangeRate; when both sources fail and no rate is cached it returns
\* exactly the hardcoded constant (3.7, source 'fallback').
C1_NeverRaises ==
    /\ ret.call.name = "getCurrentExchangeRate" =>
         /\ ret.kind = "rate"
         /\ ret.rate = ret.lookup.result
    /\ ret.lookup.pc = "done" => ret.lookup.result # NoRate
    /\ (BothFailed(ret.lookup) /\ cachedRate = NoRate) =>
         ret.lookup.result =
           [rate |-> 37, lastUpdated |-> 0, source |-> "fallback"]

\* C1 witness: a getCurrentExchangeRate call returned after both sources
\* failed with nothing cached
C1_Witness ==
    /\ ret.call.name = "getCurrentExchangeRate"
    /\ BothFailed(ret.lookup)
    /\ cachedRate = NoRate
    /\ ret.rate.source = "fallback"

\* C2: with an invalid cache the tiers are tried in the order primary,
\* secondary, stale cache, constant: the secondary source is contacted only
\* after the primary failed, no source is contacted twice, and when both
\* fail while a cached rate exists the call returns that cached rate, not
\* the constant.
C2_TierOrder ==
    \A l \in Lookups :
      /\ l.calls \in {<<>>, <<"primary">>, <<"primary", "secondary">>}
      /\ Len(l.resps) <= Len(l.calls)
      /\ l.pc = "primary" => (l.calls = <<"primary">> /\ l.resps = <<>>)
      /\ l.pc = "secondary" =>
           (l.calls = <<"primary", "secondary">> /\ l.resps = <<"failed">>)
      /\ l.tier = "primary" => (l.calls = <<"primary">> /\ l.resps = <<"ok">>)
      /\ l.tier = "secondary" =>
           (l.calls = <<"primary", "secondary">>
              /\ l.resps = <<"failed", "ok">>)
      /\ l.tier \in {"stale", "constant"} =>
           (l.calls = <<"primary", "secondary">> /\ BothFailed(l))
      /\ (BothFailed(l) /\ cachedRate # NoRate) =>
           (l.tier = "stale" /\ l.result = cachedRate
              /\ l.result.source # "fallback")
      /\ (BothFailed(l) /\ cachedRate = NoRate) => l.tier = "constant"

\* C2 witness: both sources failed while an expired rate was cached, and
\* the call returned it
C2_Witness ==
    /\ BothFailed(ret.lookup)
    /\ cachedRate # NoRate
    /\ now >= cacheExpiry
    /\ ret.lookup.result = cachedRate

\* C3: when the cache is valid (a rate is cached and now < expiry) a
\* getCurrentExchangeRate call returns exactly the cached rate, contacts
\* neither source and leaves the cached rate and its expiry unchanged.
C3_ValidCacheServed ==
    [][ /\ (cachedRate # NoRate /\ now < cacheExpiry) =>
             \A p \in Procs : lk[p].pc = "idle" => lk'[p].pc = "idle"
        /\ ret'.lookup.hit =>
             /\ cachedRate # NoRate /\ now < cacheExpiry
             /\ ret'.lookup.result = cachedRate
             /\ ret'.lookup.calls = <<>>
             /\ ret'.lookup.resps = <<>>
             /\ cachedRate' = cachedRate
             /\ cacheExpiry' = cacheExpiry
             /\ (ret'.call.name = "getCurrentExchangeRate" =>
                   ret'.rate = cachedRate)
      ]_vars

\* C3 witness: a getCurrentExchangeRate call was served from the valid cache
C3_Witness ==
    /\ ret.call.name = "getCurrentExchangeRate"
    /\ ret.lookup.hit
    /\ ret.rate = cachedRate
    /\ now < cacheExpiry

\* C4: every successful fetch, from the primary or the secondary source,
\* overwrites the cached rate with the fetched rate and sets the expiry to
\* the instant of the write plus one hour; the call returns the rate that
\* was written.
C4_FetchCached ==
    ret.lookup.tier \in {"primary", "secondary"} =>
      /\ cachedRate = ret.lookup.fetched
      /\ cacheExpiry = now + 3600000
      /\ ret.lookup.result = cachedRate
      /\ ret.lookup.fetched.rate \in Rates
      /\ (ret.call.name = "getCurrentExchangeRate" => ret.rate = cachedRate)

\* C4 witness: a fetch from the secondary source succeeded over an older
\* cached rate
C4_Witness ==
    /\ ret.lookup.tier = "secondary"
    /\ ret.lookup.fetched.lastUpdated > StartTime
    /\ ret.call.name = "getCurrentExchangeRate"

\* C5 as stated: within one TTL window only the first caller performs
\* network I/O, so no two callers whose calls start less than one TTL apart
\* both contact a remote source.
C5_OnlyFirstCallerFetches ==
    \A p, q \in Procs :
      (p # q /\ lk[p].calls # <<>> /\ lk[q].calls # <<>>) =>
        \/ lk[p].startedAt - lk[q].startedAt >= CACHE_DURATION
        \/ lk[q].startedAt - lk[p].startedAt >= CACHE_DURATION

\* C5 amended: once a successful fetch has written the cache, every
\* getCurrentExchangeRate call that starts less than one TTL after that
\* write, with no clearCache in between, is served from the cache without
\* contacting a remote source.
C5_ServedInsideWindow ==
    \A l \in Lookups :
      l.inWindow => (l.hit /\ l.calls = <<>> /\ l.pc = "done")

\* C5 witness: a call at a later instant of the window opened by another
\* call's fetch was served without network I/O
C5_Witness ==
    /\ ret.lookup.inWindow
    /\ ret.lookup.hit
    /\ lastWrite < now
    /\ ret.lookup.calls = <<>>

\* C8: convertCurrency returns the amount unchanged, without a rate lookup,
\* when from = to; amount * rate for USD to ILS and amount / rate for ILS to
\* USD at the current rate; for any other pair it fails with 'Unsupported
\* currency conversion', and that is the only error the currency service
\* raises to a caller.
C8_ConvertCurrency ==
    /\ ret.call.name = "convertCurrency" =>
         LET c == ret.call
             r == ret.lookup.result.rate
         IN  IF c.from = c.to
             THEN ret.kind = "value" /\ ret.value = c.amount
                    /\ ret.lookup = IdleLookup
             ELSE IF c.from = "USD" /\ c.to = "ILS"
             THEN ret.kind = "value" /\ ret.lookup.pc = "done"
                    /\ ret.value = (c.amount * r) \div 10
             ELSE IF c.from = "ILS" /\ c.to = "USD"
             THEN ret.kind = "value" /\ ret.lookup.pc = "done"
                    /\ ret.value = (c.amount * 10) \div r
             ELSE ret.kind = "error"
                    /\ ret.message = "Unsupported currency conversion"
    /\ ret.kind = "error" => ret.message = "Unsupported currency conversion"

\* C28: a getCurrentExchangeRate call in which both remote sources fail
\* leaves the cached rate and the expiry exactly as they were: the stale
\* rate's expiry is not extended and the hardcoded fallback constant is
\* never written to the cache, so isCacheValid stays false and the next
\* call contacts the sources again.  With clearCache, every reachable
\* cache state satisfies: cached rate absent implies expiry = 0.
C28_FailedLookupKeepsCache ==
    /\ [](/\ cachedRate = NoRate => cacheExpiry = 0
          /\ cachedRate # FallbackRate
          /\ cachedRate.source # "fallback")
    /\ [][ (\/ BothFailed(ret'.lookup)
            \/ \E p \in Procs :
                 lk[p].pc = "primary" /\ lk'[p].pc = "secondary") =>
             /\ cachedRate' = cachedRate
             /\ cacheExpiry' = cacheExpiry
             /\ isCacheValid' = isCacheValid
             /\ ~isCacheValid' => BeginLookup'.calls = <<"primary">>
      ]_vars

\* C28 witness: both sources failed while an expired rate was cached; the
\* rate is still cached with the expiry its fetch gave it, the cache is still
\* invalid and a call made now starts with the primary source
C28_Witness ==
    /\ BothFailed(ret.lookup)
    /\ ret.lookup.tier = "stale"
    /\ cachedRate # NoRate
    /\ cacheExpiry = lastWrite + CACHE_DURATION
    /\ now >= cacheExpiry
    /\ ~isCacheValid
    /\ BeginLookup.pc = "primary"

(***************************************************************************)
(* Claims about TaxCalculator                                              *)
(***************************************************************************)
\* the bracket of the 2024 table whose range [min, max] holds the income x
BracketsOf(x) ==
    {i \in 1..7 : /\ ISRAELI_TAX_BRACKETS_2024[i].min <= x
                  /\ x <= ISRAELI_TAX_BRACKETS_2024[i].max}

\* C9: for every monthly salary S >= 0 and zero tax points
\* calculateIncomeTax(S, 0) is non-negative, is 0 at S = 0 and is
\* non-decreasing in S, and between two salaries of one bracket of the 2024
\* table it grows by that bracket's rate times their difference (the slope
\* changes only at bracket boundaries).
C9_IncomeTaxMonotone ==
    \A i, j \in 1..Len(taxLog) :
      (taxLog[i].fn = "calculateIncomeTax" /\ taxLog[i].taxPoints = 0
         /\ taxLog[j].fn = "calculateIncomeTax" /\ taxLog[j].taxPoints = 0) =>
        LET S1 == taxLog[i].monthlySalary
            S2 == taxLog[j].monthlySalary
            t1 == taxLog[i].result
            t2 == taxLog[j].result
        IN  /\ t1 >= 0
            /\ S1 = 0 => t1 = 0
            /\ S1 <= S2 => t1 <= t2
            /\ S1 <= S2 =>
                 \A b \in BracketsOf(S1) \cap BracketsOf(S2) :
                   t2 - t1 = ((S2 - S1) \div 200)
                               * ISRAELI_TAX_BRACKETS_2024[b].rate

\* C9 witness: the tax of two salaries of the 35% bracket and, separately,
\* of two salaries of different brackets was computed
C9_Witness ==
    /\ Len(taxLog) = 2
    /\ taxLog[1].fn = "calculateIncomeTax" /\ taxLog[1].taxPoints = 0
    /\ taxLog[2].fn = "calculateIncomeTax" /\ taxLog[2].taxPoints = 0
    /\ taxLog[2].monthlySalary = Money(25000)
    /\ taxLog[1].monthlySalary = Money(33500)
    /\ taxLog[1].result - taxLog[2].result = Money(2975)

\* C10: for every gross monthly salary S >= 0 and every tax-point count,
\* getNetSalary returns netSalary = max(0, S - (income tax + social security
\* + employee pension + employee study fund)), so 0 <= netSalary <= S.
C10_NetSalary ==
    \A i \in 1..Len(taxLog) :
      taxLog[i].fn = "getNetSalary" =>
        LET e == taxLog[i]
            S == e.monthlySalary
            deductions == e.incomeTax + e.bituachLeumi + e.pension
                            + e.studyFund
        IN  /\ e.result.netSalary =
                 (IF S - deductions >= 0 THEN S - deductions ELSE 0)
            /\ e.result.totalDeductions = deductions
            /\ e.result.grossSalary = S
            /\ 0 <= e.result.netSalary
            /\ e.result.netSalary <= S
            /\ e.pension = (Min(S, Money(42480)) \div 200) * 12
            /\ e.studyFund = (Min(S, Money(33500)) \div 200) * 5
            /\ e.bituachLeumi = (Min(S, Money(47220)) \div 200) * 8

\* C10 witness: the net salary of 25,000 shekels a month with 2.25 tax
\* points is 16,828.0375 shekels
C10_Witness ==
    /\ taxLog # <<>>
    /\ taxLog[1].fn = "getNetSalary"
    /\ taxLog[1].monthlySalary = Money(25000)
    /\ taxLog[1].taxPoints = 9
    /\ taxLog[1].result.netSalary = Money(16828) + 30

\* C11: the tax functions raise no exception and, for every monthly salary
\* S <= 0, income tax, social-security contribution, employee pension
\* contribution and employee study-fund contribution are each 0, so total
\* deductions are 0.
C11_ZeroTaxForNonPositive ==
    \A i \in 1..Len(taxLog) :
      (taxLog[i].fn = "getTaxBreakdown" /\ taxLog[i].monthlySalary <= 0) =>
        /\ taxLog[i].result.incomeTax = 0
        /\ taxLog[i].result.bituachLeumi = 0
        /\ taxLog[i].result.pensionContributions = 0
        /\ taxLog[i].result.studyFundContributions = 0
        /\ taxLog[i].result.totalDeductions = 0

\* the bracket the loop of getMarginalTaxRate stops at for the income x
BracketOf(x) ==
    {i \in 1..7 : /\ ISRAELI_TAX_BRACKETS_2024[i].min <= x
                  /\ x < ISRAELI_TAX_BRACKETS_2024[i].max}

\* S and S + 1 ILS lie in the same tax bracket, by their gross and by their
\* taxable income, and on the same side of each contribution ceiling
SameSegment(S, taxPoints) ==
    LET next == S + Money(1)
        taxable(x) == Max(0, x - taxPointCredit(taxPoints))
    IN  /\ BracketOf(S) = BracketOf(next)
        /\ BracketOf(taxable(S)) = BracketOf(taxable(next))
        /\ \A ceiling \in {BITUACH_LEUMI_2024.monthlyCeiling,
                             PENSION_RATES_2024.maxMonthlySalaryForPension,
                             STUDY_FUND_RATES_2024.maxMonthlySalaryForStudyFund} :
             (S < ceiling) = (next < ceiling)

\* C25: getMarginalTaxRate(S, taxPoints) is the rate on the next ILS
\* earned: for every monthly salary S >= 0 such that S and S + 1 lie in the
\* same tax bracket and on the same side of each contribution ceiling, it
\* equals totalDeductions(S + 1) - totalDeductions(S) as getTaxBreakdown
\* computes them.
C25_MarginalRate ==
    \A i \in 1..Len(taxLog) :
      LET S == taxLog[i].monthlySalary
          tp == taxLog[i].taxPoints
      IN  (/\ taxLog[i].fn = "getMarginalTaxRate"
           /\ S >= 0
           /\ SameSegment(S, tp)) =>
            Times(Money(1), taxLog[i].result)
              = getTaxBreakdown(S + Money(1), tp).totalDeductions
                  - getTaxBreakdown(S, tp).totalDeductions

(***************************************************************************)
(* Claims about EquityValuator                                             *)
(***************************************************************************)
\* the calls of the given function in the journal
EquityCalls(fn) == {i \in 1..Len(equityLog) : equityLog[i].fn = fn}

\* the calculateVestingSchedule calls for a schedule of the given type
VestingCalls(type) ==
    {i \in EquityCalls("calculateVestingSchedule") :
       equityLog[i].grant.vestingSchedule.type = type}

\* C12: for a grant with a 'standard' vesting schedule of totalYears Y,
\* calculateVestingSchedule produces exactly 4Y events, event k (k = 0..4Y-1)
\* dated vestingStart + cliffMonths + 3k months, in ascending order; every
\* tranche is amount / (4Y), except that with a cliff the first tranche is
\* tranche * (cliffMonths / 3 + 1); and the final event's cumulativeShares
\* equals the full grant amount.
C12_StandardSchedule ==
    \A i \in VestingCalls("standard") :
      LET grant == equityLog[i].grant
          events == equityLog[i].result
          Y == grant.vestingSchedule.totalYears
          cliffMonths == grant.vestingSchedule.cliffMonths
      IN  /\ Len(events) = 4 * Y
          /\ \A k \in 0..(4 * Y - 1) :
               /\ events[k + 1].date
                    = setMonth(grant.vestingStart, cliffMonths + 3 * k)
               /\ events[k + 1].date.month
                    \in {grant.vestingStart.month + cliffMonths + 3 * k,
                         grant.vestingStart.month + cliffMonths + 3 * k + 1}
               /\ k > 0 =>
                    getTime(events[k].date) < getTime(events[k + 1].date)
               /\ (4 * Y) * 3 * events[k + 1].sharesVested
                    = IF k = 0 /\ cliffMonths > 0
                      THEN grant.amount * (cliffMonths + 3)
                      ELSE grant.amount * 3
          /\ events[4 * Y].cumulativeShares = grant.amount

\* C12 witness: 4800 shares over 4 years with a 12-month cliff from
\* 31 January 2024 vest in 16 events, the first of 1500 shares on
\* 31 January 2025, the last with 4800 cumulative shares
C12_Witness ==
    \E i \in VestingCalls("standard") :
      /\ equityLog[i].grant.amount = 4800
      /\ equityLog[i].grant.vestingSchedule.totalYears = 4
      /\ equityLog[i].grant.vestingSchedule.cliffMonths = 12
      /\ equityLog[i].grant.vestingStart = [month |-> 2024 * 12, day |-> 31]
      /\ Len(equityLog[i].result) = 16
      /\ equityLog[i].result[1].sharesVested = 1500
      /\ equityLog[i].result[1].date = [month |-> 2025 * 12, day |-> 31]
      /\ equityLog[i].result[2].sharesVested = 300
      /\ equityLog[i].result[2].date = [month |-> 2025 * 12 + 4, day |-> 1]
      /\ equityLog[i].result[16].cumulativeShares = 4800

\* the shares vested over the first n events
RECURSIVE SharesVestedUpTo(_, _)
SharesVestedUpTo(events, n) ==
    IF n = 0 THEN 0
    ELSE SharesVestedUpTo(events, n - 1) + events[n].sharesVested

\* C13: in every vesting schedule produced by calculateVestingSchedule
\* (standard, cliff and custom) each event's cumulativeShares equals the sum
\* of sharesVested over that event and all earlier events of the grant, and
\* for standard and cliff schedules the shares vested over all events total
\* exactly the grant amount.
C13_CumulativeShares ==
    \A i \in EquityCalls("calculateVestingSchedule") :
      LET grant == equityLog[i].grant
          events == equityLog[i].result
      IN  /\ \A n \in 1..Len(events) :
               events[n].cumulativeShares = SharesVestedUpTo(events, n)
          /\ grant.vestingSchedule.type \in {"standard", "cliff"} =>
               SharesVestedUpTo(events, Len(events)) = grant.amount

\* C14: for a grant with a 'cliff' vesting schedule calculateVestingSchedule
\* produces exactly one event, dated vestingStart + cliffMonths, whose
\* sharesVested and cumulativeShares both equal 100% of the grant amount.
C14_CliffSchedule ==
    \A i \in VestingCalls("cliff") :
      LET grant == equityLog[i].grant
          events == equityLog[i].result
      IN  /\ Len(events) = 1
          /\ events[1].date
               = setMonth(grant.vestingStart, grant.vestingSchedule.cliffMonths)
          /\ events[1].sharesVested = grant.amount
          /\ events[1].cumulativeShares = grant.amount

\* C14 witness: 4800 shares with a 24-month cliff from 30 November 2027
\* vest in one event on 30 November 2029
C14_Witness ==
    \E i \in VestingCalls("cliff") :
      /\ equityLog[i].grant.amount = 4800
      /\ equityLog[i].grant.vestingSchedule.cliffMonths = 24
      /\ equityLog[i].grant.vestingStart
           = [month |-> 2027 * 12 + 10, day |-> 30]
      /\ equityLog[i].result
           = << [date |-> [month |-> 2029 * 12 + 10, day |-> 30],
                 sharesVested |-> 4800, cumulativeShares |-> 4800,
                 estimatedValue |-> 4800 * Money(10)] >>

\* the sum of the first n percentages
RECURSIVE SumOfPercentages(_, _)
SumOfPercentages(percentages, n) ==
    IF n = 0 THEN 0
    ELSE SumOfPercentages(percentages, n - 1) + percentages[n]

\* C15: for a grant with a 'custom' vesting schedule and percentage sequence
\* p[0..n-1] calculateVestingSchedule produces exactly n events, event i
\* dated vestingStart + cliffMonths + 12 i months, with sharesVested =
\* amount * p[i] / 100 and cumulativeShares the running total of
\* sharesVested; the percentages are not validated, so the final cumulative
\* equals amount * (sum of p) / 100 whatever the sum is.
C15_CustomSchedule ==
    \A c \in VestingCalls("custom") :
      equityLog[c].grant.vestingSchedule.hasPercentages =>
        LET grant == equityLog[c].grant
            events == equityLog[c].result
            p == grant.vestingSchedule.percentages
            n == Len(p)
        IN  /\ Len(events) = n
            /\ \A i \in 0..(n - 1) :
                 /\ events[i + 1].date
                      = setMonth(grant.vestingStart,
                                 grant.vestingSchedule.cliffMonths + 12 * i)
                 /\ events[i + 1].sharesVested * 100 = grant.amount * p[i + 1]
                 /\ events[i + 1].cumulativeShares
                      = SharesVestedUpTo(events, i + 1)
            /\ n > 0 =>
                 events[n].cumulativeShares * 100
                   = grant.amount * SumOfPercentages(p, n)

\* C15 witness: 1200 shares vesting 60% and 60% after a 12-month cliff from
\* 15 June 2025 vest 720 shares on 15 June 2026 and 720 on 15 June 2027, and
\* the final cumulative is 1440
C15_Witness ==
    \E c \in VestingCalls("custom") :
      /\ equityLog[c].grant.amount = 1200
      /\ equityLog[c].grant.vestingSchedule.percentages = <<60, 60>>
      /\ equityLog[c].grant.vestingSchedule.cliffMonths = 12
      /\ equityLog[c].grant.vestingStart = [month |-> 2025 * 12 + 5, day |-> 15]
      /\ Len(equityLog[c].result) = 2
      /\ equityLog[c].result[1].date = [month |-> 2026 * 12 + 5, day |-> 15]
      /\ equityLog[c].result[2].date = [month |-> 2027 * 12 + 5, day |-> 15]
      /\ equityLog[c].result[1].sharesVested = 720
      /\ equityLog[c].result[2].cumulativeShares = 1440

\* the sum of what the first n conversions returned
RECURSIVE ConvertedSum(_, _, _)
ConvertedSum(sites, rates, n) ==
    IF n = 0 THEN 0
    ELSE ConvertedSum(sites, rates, n - 1)
           + (sites[n].usd * rates[n].rate) \div RateScale

\* the grants of the given types in a list, as a set
GrantsOfType(grants, types) ==
    {grants[i] : i \in {j \in 1..Len(grants) : grants[j].type \in types}}

\* C16: valueStockOptions values each ISO/NQSO grant at intrinsic value
\* amount * max(0, currentPrice - strikePrice): a grant with currentPrice <=
\* strikePrice contributes gross value 0, and for every list of option
\* grants with non-negative amounts the total currentValue and postTaxValue
\* are never negative, with postTaxValue <= currentValue.
C16_OptionsIntrinsic ==
    \A i \in EquityCalls("valueStockOptions") :
      LET call == equityLog[i]
          options == GrantsOfType(call.grants, {"ISO", "NQSO"})
          inTheMoney ==
            {g \in options : g.currentStockPrice > g.strikePrice}
      IN  /\ call.result.currentValue
               = ConvertedSum(call.sites, call.rates, Len(call.sites))
          /\ Len(call.sites) = Cardinality(inTheMoney)
          /\ \A g \in inTheMoney :
               \E n \in 1..Len(call.sites) :
                 /\ call.sites[n].grant = g.id
                 /\ call.sites[n].usd
                      = g.amount * (g.currentStockPrice - g.strikePrice)
          /\ inTheMoney = {} => call.result.currentValue = 0
          /\ call.result.currentValue >= 0
          /\ call.result.postTaxValue >= 0
          /\ call.result.postTaxValue <= call.result.currentValue

\* C16 witness: NQSO options under water listed with 500 NQSO options $30
\* in the money, converted at 3.8: the total is 57,000 shekels and 37,050
\* after tax
C16_Witness ==
    \E i \in EquityCalls("valueStockOptions") :
      /\ \E n \in 1..Len(equityLog[i].grants) :
           /\ equityLog[i].grants[n].type = "NQSO"
           /\ equityLog[i].grants[n].currentStockPrice
                < equityLog[i].grants[n].strikePrice
      /\ Len(equityLog[i].sites) = 1
      /\ equityLog[i].rates[1].rate = 38
      /\ equityLog[i].result.currentValue = Money(57000)
      /\ equityLog[i].result.postTaxValue = Money(37050)

\* the purchase price of an ESPP grant: its strikePrice when set, otherwise
\* 85% of the current price
EsppPurchasePrice(g) ==
    IF g.strikePrice # 0 THEN g.strikePrice
    ELSE (g.currentStockPrice \div 100) * 85

\* amount * (currentPrice - purchasePrice) of the grants gs, each converted
\* at the rate rs gives it
RECURSIVE EsppGross(_, _)
EsppGross(gs, rs) ==
    IF gs = {} THEN 0
    ELSE LET g == CHOOSE x \in gs : TRUE
         IN  (g.amount * (g.currentStockPrice - EsppPurchasePrice(g))
                * rs[g.id]) \div RateScale
               + EsppGross(gs \ {g}, rs)

\* the rates a valuation converted its grants at: that of the grant's
\* conversion where it made one, any rate where it made none
RatesUsed(call, gs) ==
    {rs \in [{g.id : g \in gs} -> {36, 37, 38}] :
       \A n \in 1..Len(call.sites) :
         rs[call.sites[n].grant] = call.rates[n].rate}

\* what valueESPP returns besides currentValue: postTaxValue is 65% of it,
\* no vesting event, riskAdjustedValue equal to it
EsppRest(result) ==
    /\ result.postTaxValue * 100 = result.currentValue * 65
    /\ result.vestingSchedule = <<>>
    /\ result.riskAdjustedValue = result.currentValue

C18_NoConversionWithoutValue ==
    \A i \in EquityCalls("valueRSUs") \cup EquityCalls("valueStockOptions")
               \cup EquityCalls("valueESPP") :
      LET call == equityLog[i]
          types == CASE call.fn = "valueRSUs" -> {"RSU"}
                     [] call.fn = "valueStockOptions" -> {"ISO", "NQSO"}
                     [] call.fn = "valueESPP" -> {"ESPP"}
          usdValue(g) ==
            CASE g.type = "RSU" -> g.amount * g.currentStockPrice
              [] g.type \in {"ISO", "NQSO"} ->
                   g.amount * Max(0, g.currentStockPrice - g.strikePrice)
              [] g.type = "ESPP" ->
                   g.amount * (g.currentStockPrice - EsppPurchasePrice(g))
          withValue ==
            {g \in GrantsOfType(call.grants, types) : usdValue(g) > 0}
      IN  /\ {call.sites[n].grant : n \in 1..Len(call.sites)}
               = {g.id : g \in withValue}
          /\ call.result.currentValue
               = ConvertedSum(call.sites, call.rates, Len(call.sites))

\* C19: applyRiskDiscount(V, stage) returns V * 0.3 for 'startup', V * 0.6
\* for 'growth', V * 0.8 for 'pre-ipo', V for 'public', and V * 0.5 for any
\* stage value not in that table.
C19_RiskDiscount ==
    \A i \in EquityCalls("applyRiskDiscount") :
      LET V == equityLog[i].value
          stage == equityLog[i].companyStage
          tenths == CASE stage = "startup" -> 3
                      [] stage = "growth" -> 6
                      [] stage = "pre-ipo" -> 8
                      [] stage = "public" -> 10
                      [] OTHER -> 5
      IN  equityLog[i].result * 10 = V * tenths

\* the vesting events of the RSU and option grants of a list, as a set
EventsOf(grants) ==
    UNION {{calculateVestingSchedule(g)[k] :
              k \in 1..Len(calculateVestingSchedule(g))} :
             g \in GrantsOfType(grants, {"RSU", "ISO", "NQSO"})}

\* C20: generateEquitySummary merges the vesting events of all RSU and
\* option grants sorted by date ascending, and reports as nextVestingDate the
\* earliest event date strictly after 'now' (an event dated exactly now or
\* earlier is never chosen) with nextVestingValue that event's estimated
\* value; when no event lies in the future it reports null and 0.  Its three
\* totals are the sums of the RSU, option and ESPP valuations.
C20_EquitySummary ==
    \A i \in EquityCalls("generateEquitySummary") :
      LET call == equityLog[i]
          result == call.result
          pass == "generateEquitySummary"
          future == {e \in EventsOf(call.grants) :
                       getTime(e.date) > getTime(call.today)}
          rsu == valueRSUs(Filter(call.grants, {"RSU"}), call.sites,
                           call.rates, pass)
          option == valueStockOptions(Filter(call.grants, {"ISO", "NQSO"}),
                                      call.sites, call.rates, pass)
          espp == valueESPP(Filter(call.grants, {"ESPP"}), call.sites,
                            call.rates, pass)
      IN  /\ IF future = {}
             THEN result.nextVestingDate = NoDate
                    /\ result.nextVestingValue = 0
             ELSE \E e \in future :
                    /\ \A f \in future : getTime(e.date) <= getTime(f.date)
                    /\ result.nextVestingDate = e.date
                    /\ result.nextVestingValue = e.estimatedValue
          /\ result.nextVestingDate # NoDate =>
               getTime(result.nextVestingDate) > getTime(call.today)
          /\ result.totalCurrentValue
               = rsu.currentValue + option.currentValue + espp.currentValue
          /\ result.totalCurrentValue
               = ConvertedSum(call.sites, call.rates, Len(call.sites))
          /\ result.totalPostTaxValue
               = rsu.postTaxValue + option.postTaxValue + espp.postTaxValue
          /\ result.riskAdjustedValue
               = rsu.riskAdjustedValue + option.riskAdjustedValue
                   + espp.riskAdjustedValue

\* C20 witness: on 31 January 2025, the day the first 375 of 1200 RSUs vest,
\* listed after options vesting on 15 June 2025, the next vesting is that
\* of 75 RSUs at $40 on 1 May 2025
C20_Witness ==
    \E i \in EquityCalls("generateEquitySummary") :
      /\ Len(equityLog[i].grants) = 2
      /\ equityLog[i].grants[1].id = 3
      /\ equityLog[i].grants[2].id = 1
      /\ equityLog[i].today = [month |-> 2025 * 12, day |-> 31]
      /\ \E e \in EventsOf(equityLog[i].grants) :
           e.date = equityLog[i].today /\ e.sharesVested = 375
      /\ equityLog[i].result.nextVestingDate
           = [month |-> 2025 * 12 + 4, day |-> 1]
      /\ equityLog[i].result.nextVestingValue = 75 * Money(40)
      /\ equityLog[i].result.totalCurrentValue > 0

(***************************************************************************)
(* Claims about CompensationCalculator                                     *)
(***************************************************************************)
\* C6: the exchange rate recorded in a CompensationCalculation
\* (exchangeRates.usdToIls) is the rate every USD-to-ILS conversion of the
\* same calculateTotalCompensation invocation used (salary, bonus and
\* equity conversions), for every cache state and every sequence of source
\* outcomes during the invocation.
C6_RecordedRateUsed ==
    ret.kind = "calculation" =>
      \A i \in DOMAIN ret.calculation.conversions :
        ret.calculation.conversions[i].rate.rate
          = ret.calculation.result.exchangeRates.usdToIls.rate

\* a CompensationCalculation without its two timestamp fields
WithoutTimestamps(calculation) ==
    [calculation EXCEPT !.calculatedAt = 0, !.exchangeRates.timestamp = 0]

\* C7: two calculateTotalCompensation invocations with an identical
\* package, the exchange-rate cache valid and unchanged across both, return
\* results equal in every field except calculatedAt and
\* exchangeRates.timestamp.
C7_Idempotent ==
    \A i, j \in DOMAIN calcLog :
      (/\ calcLog[i].packageData = calcLog[j].packageData
       /\ calcLog[i].cache # NoCache
       /\ calcLog[i].cache = calcLog[j].cache) =>
        WithoutTimestamps(calcLog[i].result)
          = WithoutTimestamps(calcLog[j].result)

\* C7 witness: the USD package was calculated twice against one valid
\* cache, at different instants
C7_Witness ==
    /\ Len(calcLog) = 2
    /\ calcLog[1].packageData = PackageUSD
    /\ calcLog[2].packageData = PackageUSD
    /\ calcLog[1].cache = [rate |-> cachedRate, expiry |-> cacheExpiry]
    /\ calcLog[2].cache = calcLog[1].cache
    /\ isCacheValid
    /\ calcLog[1].result.calculatedAt > calcLog[2].result.calculatedAt
    /\ calcLog[1].result.totalAnnualCompensation > 0

\* C21: in every result of calculateTotalCompensation,
\* totalAnnualCompensation is the sum of the gross figures of the four
\* breakdowns (baseSalary, benefits, equity, perks), netCompensation is the
\* sum of their net figures, and, the inputs being non-negative,
\* netCompensation <= totalAnnualCompensation.
C21_Totals ==
    ret.kind = "calculation" =>
      LET result == ret.calculation.result
          b == result.breakdown
      IN  /\ result.totalAnnualCompensation
               = b.baseSalary.gross + b.benefits.gross + b.equity.gross
                   + b.perks.gross
          /\ result.netCompensation
               = b.baseSalary.net + b.benefits.net + b.equity.net
                   + b.perks.net
          /\ result.netCompensation <= result.totalAnnualCompensation

\* C21 witness: a calculation was returned whose salary and equity have a
\* positive gross figure, the equity a smaller net figure
C21_Witness ==
    /\ ret.kind = "calculation"
    /\ ret.calculation.result.breakdown.equity.gross > 0
    /\ ret.calculation.result.breakdown.equity.net
         < ret.calculation.result.breakdown.equity.gross
    /\ ret.calculation.result.breakdown.baseSalary.gross > 0
    /\ ret.calculation.result.netCompensation
         < ret.calculation.result.totalAnnualCompensation

\* the number of times message occurs in errors
Occurrences(errors, message) ==
    Cardinality({i \in 1..Len(errors) : errors[i] = message})

\* the number of grants that satisfy Test
Grants(grants, Test(_)) ==
    Cardinality({i \in 1..Len(grants) : Test(grants[i])})

\* C22: validateInputs returns errors as a list and isValid = (the list is
\* empty); for equity it reports an error for a grant exactly when
\* amount <= 0, or the grant is an ISO/NQSO whose strike price is missing or
\* negative, or a given stock price is negative.  An option grant carrying
\* a non-negative strike price, a strike price of 0 included, produces no
\* strike-price error.
C22_ValidateInputs ==
    \A i \in EquityCalls("validateInputs") :
      LET call == equityLog[i]
          grants == call.packageData.equity.grants
          errors == call.result.errors
      IN  /\ call.result.isValid = (errors = <<>>)
          /\ Occurrences(errors, "Equity grant amount must be greater than 0")
               = Grants(grants, LAMBDA g : g.amount <= 0)
          /\ Occurrences(errors, "Strike price is required for stock options")
               = Grants(grants,
                        LAMBDA g : /\ g.type \in {"ISO", "NQSO"}
                                   /\ \/ g.strikePrice = Undefined
                                      \/ g.strikePrice < 0)
          /\ Occurrences(errors, "Current stock price must be positive")
               = Grants(grants,
                        LAMBDA g : /\ g.currentStockPrice # Undefined
                                   /\ g.currentStockPrice < 0)

\* C24: in every ComponentBreakdown inside a CompensationCalculation (base
\* salary, benefits, equity, perks) the gross figure equals the sum of the
\* values of the entries of its components map; for the base salary,
\* gross = baseSalary component + bonus component when a bonus is present.
C24_GrossIsSumOfComponents ==
    ret.kind = "calculation" =>
      \A k \in {"baseSalary", "benefits", "equity", "perks"} :
        ret.calculation.result.breakdown[k].gross
          = SumValues(ret.calculation.result.breakdown[k].components)


\* C29: in a returned calculation taxImplications.grossSalary equals
\* breakdown.baseSalary.gross and taxImplications.netSalary equals
\* breakdown.baseSalary.net, for ILS and for USD salaries and whatever the
\* cache held and the sources answered during the invocation.
C29_TaxImplicationsMatchBaseSalary ==
    ret.kind = "calculation" =>
      LET result == ret.calculation.result
      IN  /\ result.taxImplications.grossSalary
               = result.breakdown.baseSalary.gross
          /\ result.taxImplications.netSalary
               = result.breakdown.baseSalary.net


\* the grant types valued by the function of EquityValuator named fn
TypesValuedBy(fn) == IF fn = "valueRSUs" THEN {"RSU"} ELSE {"ISO", "NQSO"}

\* the sum, over the grants of the given types, of the grant's value
\* discounted by the factor of the grant's own company stage
RECURSIVE DiscountedPerGrant(_, _, _, _, _)
DiscountedPerGrant(grants, types, sites, rates, pass) ==
    IF grants = <<>> THEN 0
    ELSE LET grant == Head(grants)
             stage == IF grant.companyStage = NoStage THEN "public"
                      ELSE grant.companyStage
             rest == DiscountedPerGrant(Tail(grants), types, sites, rates,
                                        pass)
         IN  IF grant.type \in types
             THEN applyRiskDiscount(grantValueILS(grant, sites, rates, pass),
                                    stage) + rest
             ELSE rest

\* the grants in the opposite order
Reversed(grants) == [i \in 1..Len(grants) |-> grants[Len(grants) + 1 - i]]

\* C30: the riskAdjustedValue returned by valueRSUs and by valueStockOptions
\* does not depend on the order of the grants: the same grants in another
\* order, converted at the same rates, yield the same riskAdjustedValue,
\* which is the sum of each grant's value discounted by the factor of that
\* grant's own company stage.
C30_RiskAdjustedOrderIndependent ==
    \A i \in 1..Len(equityLog) :
      LET e == equityLog[i]
      IN  e.fn \in {"valueRSUs", "valueStockOptions"} =>
            /\ e.result.riskAdjustedValue
                 = DiscountedPerGrant(e.grants, TypesValuedBy(e.fn), e.sites,
                                      e.rates, e.fn)
            /\ e.result.riskAdjustedValue
                 = EquityValuation(
                     Reversed(e.grants),
                     Valuation(Reversed(e.grants), TypesValuedBy(e.fn),
                               e.sites, e.rates, e.fn),
                     <<>>).riskAdjustedValue


\* C23: an error raised inside calculateTotalCompensation reaches the caller
\* as one generic 'Failed to calculate compensation' error without any
\* detail of its cause; calculateQuickTotal never throws and returns 0 when
\* its computation fails; exchange-rate source failures alone make neither
\* operation fail: calculateTotalCompensation throws only for a package that
\* raises, and calculateQuickTotal of a number returns the total at the rate
\* its lookup resolved to.
C23_ErrorHandling ==
    /\ ret.call.name = "calculateTotalCompensation" =>
         /\ ret.kind \in {"calculation", "error"}
         /\ ret.kind = "error" <=> Raises(ret.call.packageData)
         /\ ret.kind = "error" =>
              ret.message = "Failed to calculate compensation. Please check your inputs and try again."
    /\ ret.call.name = "calculateQuickTotal" =>
         /\ ret.kind = "value"
         /\ ret.call.monthlySalary = ABigInt => ret.value = 0
         /\ ret.call.monthlySalary # ABigInt =>
              /\ ret.value > 0
              /\ ret.value =
                   quickTotalOf(IF ret.call.currency = "USD"
                                THEN convertUSDToILS(ret.call.monthlySalary,
                                                     ret.lookup.result)
                                ELSE ret.call.monthlySalary,
                                ret.call.hasEquity, ret.call.hasBenefits)

\* C23 witness: calculateTotalCompensation threw the generic error for a
\* package without perks, after a lookup in which both sources failed
C23_Witness ==
    /\ ret.call.name = "calculateTotalCompensation"
    /\ ret.kind = "error"
    /\ ret.message # ""
    /\ Raises(ret.call.packageData)
    /\ BothFailed(ret.lookup)

\* calculateQuickTotal returned 0 for a USD salary whose conversion threw
\* after a lookup in which both sources failed, and a total for a number
C23_QuickTotalReached ==
    /\ ret.call.name = "calculateQuickTotal"
    /\ ret.call.currency = "USD"
    /\ BothFailed(ret.lookup)
    /\ ret.value = 0


(***************************************************************************)
(* Claims about CompensationProvider and useCompensationCalculation        *)
(***************************************************************************)
\* C26: when validateInputs reports an error, calculateCompensation does not
\* invoke the full calculation and dispatches no SET_CALCULATION (the stored
\* calculation is unchanged), and the error state is set to the validation
\* messages joined with ', '; and in every outcome (validation failure,
\* calculation failure, success) the loading flag set at the start is
\* eventually false again.
C26_CalculateCompensation ==
    /\ [][ (/\ ui'.last = "calculateCompensation"
            /\ now' = now
            /\ ~validateInputs(ui.currentPackage).isValid) =>
             /\ op' = op
             /\ lk' = lk
             /\ ret'.kind = "none"
             /\ ui'.calculation = ui.calculation
             /\ ui'.error =
                  [hasError |-> TRUE,
                   message |->
                     join(validateInputs(ui.currentPackage).errors, ", ")]
             /\ ~ui'.isLoading
      ]_vars
    /\ (ui.isLoading ~> ~ui.isLoading)

\* C26 witness: calculateCompensation ran on the package with two
\* validation errors while a calculation was stored: the calculation is
\* still stored, the error holds both messages and loading is false
C26_Witness ==
    /\ ui.last = "calculateCompensation"
    /\ ~validateInputs(ui.currentPackage).isValid
    /\ ui.calculation # Null
    /\ ui.error.hasError
    /\ ui.error.message =
         "Base salary must be greater than 0, Vacation days should be between 0 and 50"
    /\ ~ui.isLoading
    /\ op[1] = Idle

\* calculateCompensation is waiting for a fetch with loading set, and a
\* calculation that failed left its generic message in the error state
C26_Loading == ui.isLoading /\ op[1] # Idle

C26_CalculationFailed ==
    /\ ui.last = "settle"
    /\ ui.error.hasError
    /\ ~ui.isLoading
    /\ ui.calculation = Null


\* C27: the quick-total preview is debounced: calculateQuickTotal is
\* invoked for a package change only once the package has stayed unchanged
\* for 500 ms (by the timeout of useDebounce, after the call made at mount),
\* so that a burst of edits less than 500 ms apart invokes it at most once,
\* and the displayed quickTotal is the one computed from the latest package.
C27_QuickTotalDebounced ==
    /\ ui.quickBy \in {"mount", "debounce"}
    /\ ui.burstCalls <= 1
    /\ ~ui.timer => ui.quickTotal = hookQuickTotal(ui.currentPackage)

=============================================================================
